---- MODULE Spec2Model ----
(***************************************************************************)
(* Metal Snake: the game simulation (Snake, CollisionSystem, PowerUp /     *)
(* PowerUpManager, ComboSystem), the ScoreManager, and the Game controller *)
(* that drives them from animation frames and key events.                  *)
(*                                                                         *)
(* GAME_SPEED is a JavaScript number that TIME_SLOW multiplies by 0.25; it *)
(* is kept here as an integer count of 1/SPEED_UNIT steps.                 *)
(*                                                                         *)
(* Every system is constructed with the config object; the model gives the *)
(* config a small grid, short timers and short lists.  Spec is the         *)
(* complete game.  Its parts are explored separately:                      *)
(*   SpecRounds     the game, with a player who uses few keys              *)
(*   SpecEffects    the game, with the speed and score pickups             *)
(*   SpecOrder      the game, with invincibility and the magnet            *)
(*   SpecPhases     the game and the phases around a round                 *)
(*   SpecLoop       Game.start and the loop, with frames that fail         *)
(*   SpecMenu       the menus and the pause of a started game              *)
(*   SpecAgain      round after round                                      *)
(*   SpecAssets     the AssetLoader, every order of the audio's events     *)
(*   SpecSound      the SoundManager, calls during its initialisation      *)
(*   SpecSnake      the Snake and its callers                              *)
(*   SpecPowerUps   the PowerUpManager and its callers                     *)
(*   SpecCountdown  the same in a round that keeps running                 *)
(*   SpecScoring    the ComboSystem and the score                          *)
(*   SpecFind       the loop of findValidPosition                          *)
(*   SpecScores     the ScoreManager                                       *)
(***************************************************************************)

EXTENDS Integers, Sequences, FiniteSets, Bags, TLC

(* ---- configuration, scaled down (js/config/constants.js CONFIG) ---- *)
GRID_COLS == 4
GRID_ROWS == 2
OBSTACLE_COUNT == 1
POWERUP_SPAWN_INTERVAL == 2
POWERUP_DURATION == 3
POWERUP_COUNT == 1
COMBO_DECAY_TIME == 2
MAX_SCORES == 2

(* ---- bounds of the exploration ---- *)
MaxLen == 4
MaxScore == 10
MaxBoost == 2
MaxSlow == 2
MaxCombo == 6
MaxPoints == 40
MaxAdds == 3
MaxFinal == 2
MaxRounds == 2
MaxCalls == 3

(* ---- program constants ---- *)
START_LENGTH == 3
BASE_GAME_SPEED == 8
OBSTACLE_BONUS == 2
SPEED_BOOST_STEP == 3
BASE_BONUS == 5

(* ---- enumerations (js/config/constants.js) ---- *)
MENU == "menu"
PLAY == "play"
PAUSE == "pause"
GAME_OVER == "game_over"
HIGHSCORES == "highscores"
SETTINGS == "settings"
GameState == {MENU, PLAY, PAUSE, GAME_OVER, HIGHSCORES, SETTINGS}

UP == "up"
DOWN == "down"
LEFT == "left"
RIGHT == "right"
Direction == {UP, DOWN, LEFT, RIGHT}

opposite(dir) ==
  CASE dir = UP -> DOWN
    [] dir = DOWN -> UP
    [] dir = LEFT -> RIGHT
    [] dir = RIGHT -> LEFT
    [] OTHER -> dir

SPEED_BOOST == "speed_boost"
INVINCIBILITY == "invincibility"
SCORE_MULTIPLIER == "score_multiplier"
MAGNET == "magnet"
SHRINK == "shrink"
TIME_SLOW == "time_slow"
PowerUpType == {SPEED_BOOST, INVINCIBILITY, SCORE_MULTIPLIER, MAGNET, SHRINK, TIME_SLOW}

(* ---- cells ---- *)
Cell(cx, cy) == [x |-> cx, y |-> cy]
GridCells == {Cell(cx, cy) : cx \in 0..(GRID_COLS - 1), cy \in 0..(GRID_ROWS - 1)}
Range(s) == {s[i] : i \in 1..Len(s)}

(* ---- CollisionSystem (js/systems/collision.js) ---- *)
checkSnakeCollision(position, snakeBody) ==
  \E i \in 1..Len(snakeBody) : snakeBody[i].x = position.x /\ snakeBody[i].y = position.y

checkObstacleCollision(position, obs) ==
  \E i \in 1..Len(obs) : obs[i].x = position.x /\ obs[i].y = position.y

checkPowerUpCollision(position, pus) ==
  \E i \in 1..Len(pus) : pus[i].x = position.x /\ pus[i].y = position.y

checkFoodCollision(position, food) ==
  position.x = food.x /\ position.y = food.y

checkBoundsCollision(position) ==
  \/ position.x < 0 \/ position.x >= GRID_COLS
  \/ position.y < 0 \/ position.y >= GRID_ROWS

\* options.excludeFood / options.excludePowerUps switch the food and the
\* pickup test OFF: the test runs when the option is false.
isValidPosition(position, snakeBody, obs, food, pus, excludeFood, excludePowerUps) ==
  IF checkSnakeCollision(position, snakeBody) THEN FALSE
  ELSE IF checkBoundsCollision(position) THEN FALSE
  ELSE IF checkObstacleCollision(position, obs) THEN FALSE
  ELSE IF ~excludeFood /\ checkFoodCollision(position, food) THEN FALSE
  ELSE IF ~excludePowerUps /\ checkPowerUpCollision(position, pus) THEN FALSE
  ELSE TRUE

\* CollisionSystem.findValidPosition, line 59 (100 in the program)
maxAttempts == 3

\* faulty variant of moreAttempts: one sample too many
moreAttemptsOneMore(i) == i <= maxAttempts

\* CollisionSystem.findValidPosition, line 61: the test of the for loop
moreAttempts(i) == i < maxAttempts

\* The cells findValidPosition can return: any sampled grid cell that is
\* valid, or the fallback (0,0) when every one of the maxAttempts samples fell
\* on an invalid cell, which can happen as soon as one grid cell is invalid.
findValidPosition(snakeBody, obs, food, pus, excludeFood, excludePowerUps) ==
  LET valid == {c \in GridCells :
                  isValidPosition(c, snakeBody, obs, food, pus, excludeFood, excludePowerUps)}
  IN  valid \cup (IF valid # GridCells THEN {Cell(0, 0)} ELSE {})

\* Game.getRandomPosition(excludeFood): excludePowerUps is always false
getRandomPosition(snakeBody, obs, food, pus, excludeFood) ==
  findValidPosition(snakeBody, obs, food, pus, excludeFood, FALSE)

(* ---- Snake (js/core/snake.js) ---- *)
startBody ==
  [i \in 1..START_LENGTH |-> Cell((GRID_COLS \div 2) - (i - 1), GRID_ROWS \div 2)]

\* faulty variant of setDirection: the request is stored without the test
setDirectionUnguarded(nextDir, actualDir, newDir) == newDir

\* Snake.setDirection: the new value of nextDirection
setDirection(nextDir, actualDir, newDir) ==
  IF newDir # opposite(actualDir) THEN newDir ELSE nextDir

\* Snake.move, lines 39-42: the direction the move is made in
commitDirection(dir, nextDir, actualDir) ==
  IF nextDir # opposite(actualDir) THEN nextDir ELSE dir

\* Snake.move, lines 43-51: one step from the head
stepHead(head, dir) ==
  CASE dir = UP -> Cell(head.x, head.y - 1)
    [] dir = DOWN -> Cell(head.x, head.y + 1)
    [] dir = LEFT -> Cell(head.x - 1, head.y)
    [] dir = RIGHT -> Cell(head.x + 1, head.y)

\* faulty variant of wrapHead: the head is left where the step put it
wrapHeadNoModulo(head) == head

\* Snake.move, lines 60-61
wrapHead(head) ==
  Cell((head.x + GRID_COLS) % GRID_COLS, (head.y + GRID_ROWS) % GRID_ROWS)

\* faulty variant of moveDies: the obstacle test is missing
moveDiesNoObstacles(head, snakeBody, obs, inv) ==
  IF ~inv
  THEN \/ head.x < 0 \/ head.x >= GRID_COLS \/ head.y < 0 \/ head.y >= GRID_ROWS
       \/ checkSnakeCollision(head, snakeBody)
  ELSE FALSE

\* faulty variant of moveDies: the bounds test is missing
moveDiesNoBounds(head, snakeBody, obs, inv) ==
  IF ~inv
  THEN \/ checkSnakeCollision(head, snakeBody)
       \/ checkObstacleCollision(head, obs)
  ELSE FALSE

\* faulty variant of moveDies: the self-collision test is missing
moveDiesNoSelf(head, snakeBody, obs, inv) ==
  IF ~inv
  THEN \/ head.x < 0 \/ head.x >= GRID_COLS \/ head.y < 0 \/ head.y >= GRID_ROWS
       \/ checkObstacleCollision(head, obs)
  ELSE FALSE

\* Snake.move, lines 54-72: does the move die
moveDies(head, snakeBody, obs, inv) ==
  IF ~inv
  THEN \/ head.x < 0 \/ head.x >= GRID_COLS \/ head.y < 0 \/ head.y >= GRID_ROWS
       \/ checkSnakeCollision(head, snakeBody)
       \/ checkObstacleCollision(head, obs)
  ELSE FALSE

\* faulty variant of growBody: the tail is popped on food as well
growBodyAlwaysPops(head, snakeBody, food) ==
  <<head>> \o SubSeq(snakeBody, 1, Len(snakeBody) - 1)

\* Snake.move, lines 75-78: unshift the head, pop the tail unless on food
growBody(head, snakeBody, food) ==
  IF head.x = food.x /\ head.y = food.y
  THEN <<head>> \o snakeBody
  ELSE <<head>> \o SubSeq(snakeBody, 1, Len(snakeBody) - 1)

\* Snake.move as a whole: the snake after the call and the value returned
move(snakeBody, dir, nextDir, actualDir, inv, food, obs) ==
  LET committed == nextDir # opposite(actualDir)
      d  == commitDirection(dir, nextDir, actualDir)
      ad == IF committed THEN d ELSE actualDir
      h0 == stepHead(snakeBody[1], d)
      h  == IF inv THEN wrapHead(h0) ELSE h0
  IN  IF moveDies(h, snakeBody, obs, inv)
      THEN [alive |-> FALSE, body |-> snakeBody, direction |-> d, actualDirection |-> ad]
      ELSE [alive |-> TRUE, body |-> growBody(h, snakeBody, food),
            direction |-> d, actualDirection |-> ad]

(* ---- ComboSystem (js/systems/combo.js) ---- *)
\* faulty variant of comboUpdate: a combo that runs out loses one step
comboUpdateStepsDown(count, timer) ==
  IF timer > 0
  THEN IF timer - 1 = 0
       THEN [comboCount |-> IF count > 0 THEN count - 1 ELSE 0, comboTimer |-> 0]
       ELSE [comboCount |-> count, comboTimer |-> timer - 1]
  ELSE [comboCount |-> count, comboTimer |-> timer]

\* faulty variant of comboUpdate: the combo is lost one call after the timer
\* has reached 0
comboUpdateLate(count, timer) ==
  IF timer > 0
  THEN [comboCount |-> count, comboTimer |-> timer - 1]
  ELSE [comboCount |-> 0, comboTimer |-> 0]

\* ComboSystem.update
comboUpdate(count, timer) ==
  IF timer > 0
  THEN IF timer - 1 = 0
       THEN [comboCount |-> 0, comboTimer |-> 0]
       ELSE [comboCount |-> count, comboTimer |-> timer - 1]
  ELSE [comboCount |-> count, comboTimer |-> timer]

\* ComboSystem.getComboMultiplier, in halves: 1 + floor(count / 3) * 0.5
comboMultiplier2(count) == 2 + (count \div 3)

\* faulty variant of incrementCombo: the multiplier of the count before the
\* increment is returned
incrementComboOldCount(count) ==
  [comboCount |-> count + 1, comboTimer |-> COMBO_DECAY_TIME,
   multiplier2 |-> comboMultiplier2(count)]

\* faulty variant of incrementCombo: the timer starts one frame too high
incrementComboLongTimer(count) ==
  [comboCount |-> count + 1, comboTimer |-> COMBO_DECAY_TIME + 1,
   multiplier2 |-> comboMultiplier2(count + 1)]

\* ComboSystem.incrementCombo: the new state and the multiplier returned
incrementCombo(count) ==
  [comboCount |-> count + 1, comboTimer |-> COMBO_DECAY_TIME,
   multiplier2 |-> comboMultiplier2(count + 1)]

\* faulty variant of foodScore: the product is rounded down
foodScoreRoundsDown(obstaclesOn, scoreMult, multiplier2) ==
  LET obstacleBonus == IF obstaclesOn THEN 1 + OBSTACLE_BONUS ELSE 1
  IN  (obstacleBonus * scoreMult * multiplier2) \div 2

\* Game.handleFoodCollection, lines 1146-1148: Math.round of a multiple of 0.5
foodScore(obstaclesOn, scoreMult, multiplier2) ==
  LET obstacleBonus == IF obstaclesOn THEN 1 + OBSTACLE_BONUS ELSE 1
  IN  ((obstacleBonus * scoreMult * multiplier2) + 1) \div 2

(* ---- PowerUp / PowerUpManager (js/systems/powerup.js) ---- *)
\* GAME_SPEED is held in units of 1/SPEED_UNIT
SPEED_UNIT == 4 ^ MaxSlow
speed(n) == n * SPEED_UNIT

Max(a, b) == IF a >= b THEN a ELSE b
Abs(a) == IF a < 0 THEN -a ELSE a
clamp(v, lo, hi) == Max(lo, IF v <= hi THEN v ELSE hi)

\* assignment activePowerUps[type] = value
setActive(active, type, value) ==
  [k \in (DOMAIN active) \cup {type} |-> IF k = type THEN value ELSE active[k]]

\* delete activePowerUps[type]
deleteActive(active, type) ==
  [k \in (DOMAIN active) \ {type} |-> active[k]]

\* faulty variant of apply: the duration is added to what is left of the entry
applyAddsDuration(type, m) ==
  LET e == CASE type = SPEED_BOOST -> [m EXCEPT !.GAME_SPEED = @ + speed(SPEED_BOOST_STEP)]
             [] type = INVINCIBILITY -> [m EXCEPT !.invincible = TRUE]
             [] type = SCORE_MULTIPLIER -> [m EXCEPT !.scoreMultiplier = 2]
             [] type = MAGNET -> [m EXCEPT !.magnetActive = TRUE]
             [] type = SHRINK -> [m EXCEPT !.shrinkActive = "true"]
             [] type = TIME_SLOW -> [m EXCEPT !.GAME_SPEED = @ \div 4]
      left == IF type \in DOMAIN m.activePowerUps THEN m.activePowerUps[type] ELSE 0
  IN  [e EXCEPT !.activePowerUps = setActive(@, type, left + POWERUP_DURATION)]

\* PowerUp.apply: m holds the fields of the game the effects write
apply(type, m) ==
  LET e == CASE type = SPEED_BOOST -> [m EXCEPT !.GAME_SPEED = @ + speed(SPEED_BOOST_STEP)]
             [] type = INVINCIBILITY -> [m EXCEPT !.invincible = TRUE]
             [] type = SCORE_MULTIPLIER -> [m EXCEPT !.scoreMultiplier = 2]
             [] type = MAGNET -> [m EXCEPT !.magnetActive = TRUE]
             [] type = SHRINK -> [m EXCEPT !.shrinkActive = "true"]
             [] type = TIME_SLOW -> [m EXCEPT !.GAME_SPEED = @ \div 4]
  IN  [e EXCEPT !.activePowerUps = setActive(@, type, POWERUP_DURATION)]

\* variant of expirePowerUp: the reversal of TIME_SLOW keeps a SPEED_BOOST
\* that is in force
expireKeepsBoost(type, m) ==
  LET e == CASE type = SPEED_BOOST ->
                  [m EXCEPT !.GAME_SPEED = Max(speed(BASE_GAME_SPEED), @ - speed(SPEED_BOOST_STEP))]
             [] type = INVINCIBILITY -> [m EXCEPT !.invincible = FALSE]
             [] type = SCORE_MULTIPLIER -> [m EXCEPT !.scoreMultiplier = 1]
             [] type = MAGNET -> [m EXCEPT !.magnetActive = FALSE]
             [] type = SHRINK -> [m EXCEPT !.shrinkActive = "false"]
             [] type = TIME_SLOW ->
                  [m EXCEPT !.GAME_SPEED = IF SPEED_BOOST \in DOMAIN m.activePowerUps
                                           THEN speed(BASE_GAME_SPEED + SPEED_BOOST_STEP)
                                           ELSE speed(BASE_GAME_SPEED)]
  IN  [e EXCEPT !.activePowerUps = deleteActive(@, type)]

\* PowerUpManager.expirePowerUp
expirePowerUp(type, m) ==
  LET e == CASE type = SPEED_BOOST ->
                  [m EXCEPT !.GAME_SPEED = Max(speed(BASE_GAME_SPEED), @ - speed(SPEED_BOOST_STEP))]
             [] type = INVINCIBILITY -> [m EXCEPT !.invincible = FALSE]
             [] type = SCORE_MULTIPLIER -> [m EXCEPT !.scoreMultiplier = 1]
             [] type = MAGNET -> [m EXCEPT !.magnetActive = FALSE]
             [] type = SHRINK -> [m EXCEPT !.shrinkActive = "false"]
             [] type = TIME_SLOW -> [m EXCEPT !.GAME_SPEED = speed(BASE_GAME_SPEED)]
  IN  [e EXCEPT !.activePowerUps = deleteActive(@, type)]

\* PowerUpManager.update, lines 198-204: every entry is decremented and the
\* entries that reach 0 are expired.  The loop visits the keys in insertion
\* order; the expiries of different kinds commute (SPEED_BOOST and TIME_SLOW
\* expiring together leave BASE_GAME_SPEED in either order), so the kinds
\* are visited here in a fixed order.
TypeOrder == <<SPEED_BOOST, INVINCIBILITY, SCORE_MULTIPLIER, MAGNET, SHRINK, TIME_SLOW>>

RECURSIVE ageFrom(_, _)
ageFrom(i, m) ==
  IF i > Len(TypeOrder) THEN m
  ELSE LET type == TypeOrder[i]
       IN  IF type \in DOMAIN m.activePowerUps
           THEN LET d == [m EXCEPT !.activePowerUps[type] = @ - 1]
                IN  ageFrom(i + 1, IF d.activePowerUps[type] <= 0
                                   THEN expirePowerUp(type, d) ELSE d)
           ELSE ageFrom(i + 1, m)

\* faulty variant of ageActivePowerUps: an entry that runs out is deleted and
\* its effect stays
ageWithoutReversal(m) ==
  LET a == m.activePowerUps
  IN  [m EXCEPT !.activePowerUps = [k \in {j \in DOMAIN a : a[j] > 1} |-> a[k] - 1]]

ageActivePowerUps(m) == ageFrom(1, m)

\* faulty variant of collectBonus: the bonus is counted from the doubled
\* multiplier
collectBonusFromDouble(scoreMult) == BASE_BONUS * (scoreMult - 2)

\* PowerUpManager.update, line 219: Math.round(baseBonus * scoreMultiplier)
collectBonus(scoreMult) == BASE_BONUS * scoreMult

\* PowerUpManager.update, lines 207-291: the filter over powerUps.  r holds
\* the pickups kept so far, the game fields, the score and the kinds collected.
RECURSIVE collectFrom(_, _, _, _)
collectFrom(i, pus, head, r) ==
  IF i > Len(pus) THEN r
  ELSE IF pus[i].x = head.x /\ pus[i].y = head.y
       THEN LET m2 == apply(pus[i].type, r.m)
            IN  collectFrom(i + 1, pus, head,
                  [powerUps |-> r.powerUps, m |-> m2,
                   score |-> r.score + collectBonus(m2.scoreMultiplier),
                   collected |-> Append(r.collected, pus[i].type)])
       ELSE collectFrom(i + 1, pus, head, [r EXCEPT !.powerUps = Append(@, pus[i])])

\* faulty variant of collectPowerUps: the pickups are tested against the
\* cell right of the head
collectPowerUpsAhead(pus, head, m, sc) ==
  collectFrom(1, pus, [x |-> head.x + 1, y |-> head.y],
              [powerUps |-> <<>>, m |-> m, score |-> sc, collected |-> <<>>])

collectPowerUps(pus, head, m, sc) ==
  collectFrom(1, pus, head, [powerUps |-> <<>>, m |-> m, score |-> sc, collected |-> <<>>])

\* PowerUpManager.update, lines 186-196: is a pickup spawned this frame
spawnDue(timer) == timer + 1 >= POWERUP_SPAWN_INTERVAL
\* faulty variant of spawnAllowed: one pickup too many
spawnAllowedOneMore(pus) == Len(pus) <= POWERUP_COUNT
spawnAllowed(pus) == Len(pus) < POWERUP_COUNT

\* PowerUpManager.update, lines 186-196, with spawnPowerUp: the pickups the
\* frame can add, <<>> when none is due; types are the kinds the random draw
\* can give
spawnPowerUp(snakeBody, obs, food, pus, timer, types) ==
  IF spawnDue(timer) /\ spawnAllowed(pus)
  THEN {<<[x |-> pos.x, y |-> pos.y, type |-> type]>> :
          pos \in getRandomPosition(snakeBody, obs, food, pus, TRUE), type \in types}
  ELSE {<<>>}

\* PowerUpManager.update as a whole, given the pickup spawnPowerUp pushed: the
\* manager's fields and the game fields after the call (aged: the game fields
\* between the ageing loop and the collection)
powerUpManagerUpdate(pus, timer, m, sc, head, spawned) ==
  LET m1 == ageActivePowerUps(m)
      col == collectPowerUps(pus \o spawned, head, m1, sc)
  IN  [powerUps |-> col.powerUps,
       spawnTimer |-> IF spawnDue(timer) THEN 0 ELSE timer + 1,
       aged |-> m1, m |-> col.m, score |-> col.score, collected |-> col.collected]

\* faulty variant of attractFood: the step is made along the other axis
attractFoodMinorAxis(food, snakeBody, pus) ==
  LET head == snakeBody[1]
      dx == head.x - food.x
      dy == head.y - food.y
      moveX == IF Abs(dx) > Abs(dy) THEN 0 ELSE (IF dx > 0 THEN 1 ELSE -1)
      moveY == IF Abs(dx) > Abs(dy) THEN (IF dy > 0 THEN 1 ELSE -1) ELSE 0
      newPos == Cell(clamp(food.x + moveX, 0, GRID_COLS - 1),
                     clamp(food.y + moveY, 0, GRID_ROWS - 1))
      collision == checkSnakeCollision(newPos, snakeBody) \/ checkPowerUpCollision(newPos, pus)
  IN  IF ~collision THEN newPos ELSE food

\* Game.attractFood: the food cell after one magnet step
attractFood(food, snakeBody, pus) ==
  LET head == snakeBody[1]
      dx == head.x - food.x
      dy == head.y - food.y
      moveX == IF Abs(dx) > Abs(dy) THEN (IF dx > 0 THEN 1 ELSE -1) ELSE 0
      moveY == IF Abs(dx) > Abs(dy) THEN 0 ELSE (IF dy > 0 THEN 1 ELSE -1)
      newPos == Cell(clamp(food.x + moveX, 0, GRID_COLS - 1),
                     clamp(food.y + moveY, 0, GRID_ROWS - 1))
      collision == checkSnakeCollision(newPos, snakeBody) \/ checkPowerUpCollision(newPos, pus)
  IN  IF ~collision /\ newPos.x >= 0 /\ newPos.x < GRID_COLS
                    /\ newPos.y >= 0 /\ newPos.y < GRID_ROWS
      THEN newPos ELSE food

(* ---- ScoreManager (js/systems/score.js) ---- *)
\* an entry of a list is its score: the name and the date take no part in
\* the order or in the cut
Modes == {"classic", "obstacles"}

\* ScoreManager constructor, lines 7-10
EmptyScores == [mode \in Modes |-> <<>>]

\* Array.prototype.sort with (a, b) => b.score - a.score, one entry at a
\* time: x goes behind every entry that does not come after it (stable)
RECURSIVE insertDescending(_, _)
insertDescending(list, x) ==
  IF list = <<>> THEN <<x>>
  ELSE IF Head(list) >= x THEN <<Head(list)>> \o insertDescending(Tail(list), x)
       ELSE <<x>> \o list

\* Array.prototype.sort with (a, b) => b.score - a.score
RECURSIVE sortDescending(_)
sortDescending(list) ==
  IF list = <<>> THEN <<>>
  ELSE insertDescending(sortDescending(SubSeq(list, 1, Len(list) - 1)), list[Len(list)])

\* faulty variant of addScore: the list is cut without being sorted
addScoreUnsorted(hs, sc, mode) ==
  LET pushed == Append(hs[mode], sc)
  IN  [hs EXCEPT ![mode] = SubSeq(pushed, 1, IF Len(pushed) < MAX_SCORES
                                             THEN Len(pushed) ELSE MAX_SCORES)]

\* ScoreManager.addScore without the save: the lists after push, sort and
\* slice(0, MAX_SCORES)
addScore(hs, sc, mode) ==
  LET sorted == sortDescending(Append(hs[mode], sc))
  IN  [hs EXCEPT ![mode] = SubSeq(sorted, 1, IF Len(sorted) < MAX_SCORES
                                             THEN Len(sorted) ELSE MAX_SCORES)]

\* ScoreManager.isHighScore, with getHighScores
isHighScore(hs, sc, mode) ==
  LET scores == hs[mode]
  IN  IF Len(scores) < MAX_SCORES THEN TRUE
      ELSE sc >= scores[Len(scores)]

\* ScoreManager.saveScores: localStorage.setItem either stores the lists or
\* throws, and the throw is caught; the item after the call
saveScores(item, hs, accepted) == IF accepted THEN <<hs>> ELSE item

(* ---- Game (js/core/game.js) and InputManager (js/managers/input.js) ---- *)
VARIABLES
  state,            \* Game._state
  currentState,     \* InputManager.currentState
  obstaclesEnabled, \* Game.obstaclesEnabled
  body,             \* Snake.body, head first
  direction,        \* Snake.direction
  nextDirection,    \* Snake.nextDirection
  actualDirection,  \* Snake.actualDirection
  invincible,       \* Snake.invincible
  shrinkActive,     \* Snake.shrinkActive: "undefined" until an effect writes it
  foodPos,          \* Game.foodPos
  obstacles,        \* Game.obstacles
  powerUps,         \* PowerUpManager.powerUps: the pickups on the field
  activePowerUps,   \* PowerUpManager.activePowerUps: kind -> frames left
  spawnTimer,       \* PowerUpManager.spawnTimer
  magnetActive,     \* PowerUpManager.magnetActive
  comboCount,       \* ComboSystem.comboCount
  comboTimer,       \* ComboSystem.comboTimer
  score,            \* Game.score
  scoreMultiplier,  \* Game.scoreMultiplier
  gameSpeed,        \* Game.config.GAME_SPEED, in units of 1/SPEED_UNIT
  tempScore,        \* Game.tempScore
  tempMode,         \* Game.tempMode
  highScores,       \* ScoreManager.highScores: mode -> scores, best first
  stored,           \* localStorage item metalSnakeHighScores: <<>> or <<lists>>
  scoresAdded,      \* per mode, the bag of the scores added since the lists were empty (history)
  options,          \* findValidPosition: <<>>, or <<options>> of the call under way or returned
  attempts,         \* findValidPosition: the cells sampled so far (the loop's i)
  returned,         \* findValidPosition: <<>>, or <<the cell returned>>
  imageLoad,        \* AssetLoader.loadImage('background'): "pending" until its promise resolves
  audioLoad,        \* AssetLoader.loadAudio('background'): "pending" until its promise resolves
  loopRunning,      \* Game.gameLoop has been called and a frame is requested
  errorCount,       \* Game.errorCount
  criticalError,    \* Game.criticalError
  sounds,           \* AssetLoader.sounds has the entry 'background'
  loadErrors,       \* AssetLoader.loadErrors
  delivered,        \* the events of the background audio and of its timer handled so far
  soundManager,     \* SoundManager: isInitialized, and per node of the chain the AudioContext it is of
  soundCalls,       \* the playSound and playBackgroundMusic calls so far, each with the await it is at
  ev                \* what the last handler did (history, not program state)

snakeVars == <<body, direction, nextDirection, actualDirection, invincible, shrinkActive>>
powerUpVars == <<powerUps, activePowerUps, spawnTimer, magnetActive>>
comboVars == <<comboCount, comboTimer>>
roundVars == <<foodPos, obstacles, score, scoreMultiplier, gameSpeed>>
scoreVars == <<highScores, stored, scoresAdded>>
findVars == <<options, attempts, returned>>
assetVars == <<sounds, loadErrors, delivered>>
soundVars == <<soundManager, soundCalls>>
loopVars == <<imageLoad, audioLoad, loopRunning, errorCount, criticalError, assetVars,
              soundVars>>
sysVars == <<scoreVars, findVars, loopVars>>
overVars == <<tempScore, tempMode, sysVars>>
vars == <<state, currentState, obstaclesEnabled, snakeVars, powerUpVars, comboVars,
          roundVars, overVars, ev>>

NoActive == [k \in {} |-> 0]

\* the fields of the game PowerUp.apply and expirePowerUp write
gameFields ==
  [GAME_SPEED |-> gameSpeed, invincible |-> invincible,
   scoreMultiplier |-> scoreMultiplier, magnetActive |-> magnetActive,
   shrinkActive |-> shrinkActive, activePowerUps |-> activePowerUps]

\* the shape of ev: the handler that ran, the key of a keydown event, the
\* direction it asked the snake for, for a frame what the move did and which
\* pickups were spawned and collected, and the frames in a row up to now that
\* ended in an error
Event(op, dir, moved, ate, spawned, collected) ==
  [op |-> op, key |-> "none", dir |-> dir, moved |-> moved, ate |-> ate,
   spawned |-> spawned, collected |-> collected,
   errors |-> IF op = "error" THEN ev.errors + 1 ELSE IF op = "update" THEN 0 ELSE ev.errors]
InitEvent ==
  [op |-> "init", key |-> "none", dir |-> "none", moved |-> "none", ate |-> FALSE, spawned |-> <<>>,
   collected |-> <<>>, errors |-> 0]
KeyEvent(op, dir) == Event(op, dir, "none", FALSE, <<>>, <<>>)

\* SoundManager constructor (js/systems/sound.js): no AudioContext yet, 0 is null
NewSoundManager ==
  [isInitialized |-> FALSE, audioCtx |-> 0, masterGain |-> 0, compressor |-> 0,
   reverbNode |-> 0]

\* ScoreManager constructor with nothing stored; no findValidPosition call;
\* Game constructor, lines 620-621, before Game.start
InitSys ==
  /\ highScores = EmptyScores
  /\ stored = <<>>
  /\ scoresAdded = [mode \in Modes |-> EmptyBag]
  /\ options = <<>>
  /\ attempts = 0
  /\ returned = <<>>
  /\ imageLoad = "pending"
  /\ audioLoad = "pending"
  /\ loopRunning = FALSE
  /\ errorCount = 0
  /\ criticalError = FALSE
  /\ sounds = FALSE
  /\ loadErrors = <<>>
  /\ delivered = {}
  /\ soundManager = NewSoundManager
  /\ soundCalls = <<>>

\* Game constructor, lines 608-616, with the constructors of the Snake, the
\* PowerUpManager and the ComboSystem, and initializeGameState
InitGame ==
  /\ state = MENU
  /\ currentState = "null"
  /\ obstaclesEnabled = FALSE
  /\ body = startBody
  /\ direction = RIGHT
  /\ nextDirection = RIGHT
  /\ actualDirection = RIGHT
  /\ invincible = FALSE
  /\ shrinkActive = "undefined"
  /\ obstacles = <<>>
  /\ powerUps = <<>>
  /\ activePowerUps = NoActive
  /\ spawnTimer = 0
  /\ magnetActive = FALSE
  /\ comboCount = 0
  /\ comboTimer = 0
  /\ score = 0
  /\ scoreMultiplier = 1
  /\ gameSpeed = speed(BASE_GAME_SPEED)
  /\ tempScore = 0
  /\ tempMode = "classic"
  \* initializeGameState: foodPos is still undefined, so no cell is the food
  /\ foodPos \in {c \in GridCells : ~checkSnakeCollision(c, startBody)}
  /\ ev = InitEvent

\* Game constructor, with the constructors of the systems it creates
Init ==
  /\ InitGame
  /\ InitSys

\* the state setter: InputManager.currentState follows every assignment
SetState(newState) ==
  /\ state' = newState
  /\ currentState' = newState

\* Game.resetGame, lines 963-969: the obstacle cells, drawn one after another
RECURSIVE obstaclesFrom(_, _, _)
obstaclesFrom(n, acc, food) ==
  IF n = 0 THEN {acc}
  ELSE UNION {obstaclesFrom(n - 1, Append(acc, p), food) :
                p \in getRandomPosition(startBody, acc, food, <<>>, FALSE)}

\* Game.resetGame
resetGame ==
  /\ body' = startBody
  /\ direction' = RIGHT
  /\ nextDirection' = RIGHT
  /\ actualDirection' = RIGHT
  /\ invincible' = FALSE
  /\ shrinkActive' = "undefined"
  /\ foodPos' \in getRandomPosition(startBody, obstacles, foodPos, powerUps, FALSE)
  /\ score' = 0
  /\ powerUps' = <<>>
  /\ activePowerUps' = NoActive
  /\ spawnTimer' = 0
  /\ scoreMultiplier' = 1
  /\ gameSpeed' = speed(BASE_GAME_SPEED)
  /\ obstacles' \in (IF obstaclesEnabled
                     THEN obstaclesFrom(OBSTACLE_COUNT, <<>>, foodPos')
                     ELSE {<<>>})
  /\ comboCount' = 0
  /\ comboTimer' = 0
  /\ UNCHANGED <<magnetActive, obstaclesEnabled, overVars>>

\* faulty variant of moveAction: the handler does not look at the state
moveActionAnyState(dir) ==
  /\ nextDirection' = setDirection(nextDirection, actualDirection, dir)
  /\ UNCHANGED <<state, currentState, obstaclesEnabled, body, direction, actualDirection,
                 invincible, shrinkActive, powerUpVars, comboVars, roundVars, overVars>>

\* the handlers Game.setupInputHandlers registers, by action name
moveAction(dir) ==
  /\ IF state = PLAY
     THEN nextDirection' = setDirection(nextDirection, actualDirection, dir)
     ELSE UNCHANGED nextDirection
  /\ UNCHANGED <<state, currentState, obstaclesEnabled, body, direction, actualDirection,
                 invincible, shrinkActive, powerUpVars, comboVars, roundVars, overVars>>

\* faulty variant of pauseAction: a paused game is not resumed
pauseActionNoResume ==
  /\ IF state = PLAY THEN SetState(PAUSE)
     ELSE UNCHANGED <<state, currentState>>
  /\ UNCHANGED <<obstaclesEnabled, snakeVars, powerUpVars, comboVars, roundVars, overVars>>

pauseAction ==
  /\ IF state = PLAY THEN SetState(PAUSE)
     ELSE IF state = PAUSE THEN SetState(PLAY)
     ELSE UNCHANGED <<state, currentState>>
  /\ UNCHANGED <<obstaclesEnabled, snakeVars, powerUpVars, comboVars, roundVars, overVars>>

\* 'play' and 'select' from the menu: the state is set, then resetGame runs
startRound ==
  /\ SetState(PLAY)
  /\ resetGame

idle ==
  UNCHANGED <<state, currentState, obstaclesEnabled, snakeVars, powerUpVars, comboVars,
              roundVars, overVars>>

onlyState(newState) ==
  /\ SetState(newState)
  /\ UNCHANGED <<obstaclesEnabled, snakeVars, powerUpVars, comboVars, roundVars, overVars>>

playAction == IF state = MENU THEN startRound ELSE idle

selectAction ==
  IF state = MENU THEN startRound
  ELSE IF state = GAME_OVER THEN onlyState(MENU)
  ELSE idle

highscoresAction == IF state = MENU THEN onlyState(HIGHSCORES) ELSE idle

settingsAction == IF state = MENU THEN onlyState(SETTINGS) ELSE idle

backAction == IF state \in {HIGHSCORES, SETTINGS} THEN onlyState(MENU) ELSE idle

toggleObstaclesAction ==
  /\ obstaclesEnabled' = (IF state = MENU THEN ~obstaclesEnabled ELSE obstaclesEnabled)
  /\ UNCHANGED <<state, currentState, snakeVars, powerUpVars, comboVars, roundVars, overVars>>

\* InputManager.triggerAction
triggerAction(action) ==
  CASE action = "move_up" -> moveAction(UP)
    [] action = "move_down" -> moveAction(DOWN)
    [] action = "move_left" -> moveAction(LEFT)
    [] action = "move_right" -> moveAction(RIGHT)
    [] action = "pause" -> pauseAction
    [] action = "play" -> playAction
    [] action = "select" -> selectAction
    [] action = "highscores" -> highscoresAction
    [] action = "settings" -> settingsAction
    [] action = "back" -> backAction
    [] action = "toggle_obstacles" -> toggleObstaclesAction
    [] OTHER -> idle

\* the keys of InputManager.keyMappings that reach a handler of the simulation
Keys == {"ArrowUp", "ArrowDown", "ArrowLeft", "ArrowRight", "w", "a", "d", "s", "p",
         "Escape", "Enter", "h", "o", "b"}

keyMappings(key) ==
  CASE key \in {"ArrowUp", "w"} -> "move_up"
    [] key = "ArrowDown" -> "move_down"
    [] key \in {"ArrowLeft", "a"} -> "move_left"
    [] key \in {"ArrowRight", "d"} -> "move_right"
    [] key = "Escape" -> "pause"
    [] key = "Enter" -> "select"
    [] key = "h" -> "highscores"
    [] key = "o" -> "toggle_obstacles"
    [] key = "b" -> "back"
    [] OTHER -> "none"

\* InputManager.handleKeyDown: the action a key triggers, "none" for no action
handleKeyDown(key, cs, isFullscreen) ==
  IF cs = GAME_OVER THEN "none"
  ELSE IF key = "Escape"
       THEN IF isFullscreen THEN "none"
            ELSE IF cs \in {PLAY, PAUSE} THEN "pause"
            ELSE IF cs \in {HIGHSCORES, SETTINGS} THEN "back"
            ELSE "none"
  ELSE IF key = "p"
       THEN IF cs \in {PLAY, PAUSE} THEN "pause"
            ELSE IF cs = MENU THEN "play"
            ELSE "none"
  ELSE IF key = "s"
       THEN IF cs = PLAY THEN "move_down"
            ELSE IF cs = MENU THEN "settings"
            ELSE "none"
  ELSE keyMappings(key)

\* the calls of addScore since the lists were empty
addedSoFar == BagCardinality(scoresAdded.classic) + BagCardinality(scoresAdded.obstacles)

\* faulty variant of AddScore: a rejected write takes the new entry back
AddScoreRollsBack(sc, mode) ==
  /\ addedSoFar < MaxAdds
  /\ \E accepted \in BOOLEAN :
       /\ highScores' = (IF accepted THEN addScore(highScores, sc, mode) ELSE highScores)
       /\ stored' = saveScores(stored, highScores', accepted)
  /\ scoresAdded' = [scoresAdded EXCEPT ![mode] = @ (+) SetToBag({sc})]

\* ScoreManager.addScore as the game calls it: the lists, the stored item
\* (the write may be rejected) and the history of the scores added
AddScore(sc, mode) ==
  /\ addedSoFar < MaxAdds
  /\ highScores' = addScore(highScores, sc, mode)
  /\ \E accepted \in BOOLEAN : stored' = saveScores(stored, highScores', accepted)
  /\ scoresAdded' = [scoresAdded EXCEPT ![mode] = @ (+) SetToBag({sc})]

\* faulty variant of handleGameOver: the score of the round is not recorded
handleGameOverStale(finalScore) ==
  /\ tempMode' = (IF obstaclesEnabled THEN "obstacles" ELSE "classic")
  /\ SetState(GAME_OVER)
  /\ UNCHANGED <<tempScore, sysVars>>

\* Game.handleGameOverInput for the Enter key (the name typed is not modelled)
handleGameOverInput ==
  /\ AddScore(tempScore, tempMode)
  /\ SetState(HIGHSCORES)
  /\ UNCHANGED <<obstaclesEnabled, snakeVars, powerUpVars, comboVars, roundVars,
                 tempScore, tempMode, findVars, loopVars>>

\* the direction a move action asks for
actionDirection(action) ==
  CASE action = "move_up" -> UP
    [] action = "move_down" -> DOWN
    [] action = "move_left" -> LEFT
    [] action = "move_right" -> RIGHT
    [] OTHER -> "none"

\* A keydown event: the InputManager's listener runs first, then the Game's
\* own listener, which acts only in GAME_OVER.
KeyDown(keys) ==
  \E key \in keys, isFullscreen \in BOOLEAN :
    LET action == handleKeyDown(key, currentState, isFullscreen)
    IN  /\ IF action # "none" THEN triggerAction(action)
           ELSE IF state = GAME_OVER /\ key = "Enter" THEN handleGameOverInput
           ELSE idle
        /\ ev' = [KeyEvent("input", actionDirection(action)) EXCEPT !.key = key]

\* A swipe (InputManager.bindEvents, touchend): triggerAction without the
\* currentState tests of handleKeyDown
Swipe ==
  \E dir \in Direction :
    /\ triggerAction(CASE dir = UP -> "move_up" [] dir = DOWN -> "move_down"
                       [] dir = LEFT -> "move_left" [] dir = RIGHT -> "move_right")
    /\ ev' = KeyEvent("input", dir)

\* Game.handleVisibilityChange, for a change to hidden
VisibilityChange ==
  /\ IF state = PLAY THEN SetState(PAUSE) ELSE UNCHANGED <<state, currentState>>
  /\ UNCHANGED <<obstaclesEnabled, snakeVars, powerUpVars, comboVars, roundVars, overVars>>
  /\ ev' = KeyEvent("input", "none")

\* how many entries of a sequence equal v
RECURSIVE countOf(_, _)
countOf(seq, v) ==
  IF seq = <<>> THEN 0
  ELSE (IF Head(seq) = v THEN 1 ELSE 0) + countOf(Tail(seq), v)

\* The exploration stops where a number leaves its bound: the score, the
\* body length, the stacked speed boosts, and a TIME_SLOW whose quarter is
\* not a whole number of speed units.
withinBounds(newScore, newBody, m1, m2, collected) ==
  /\ newScore <= MaxScore
  /\ Len(newBody) <= MaxLen
  /\ m2.GAME_SPEED <= speed(BASE_GAME_SPEED + MaxBoost * SPEED_BOOST_STEP)
  /\ LET n == countOf(collected, TIME_SLOW)
     IN  n > 0 => (n <= MaxSlow /\ m1.GAME_SPEED % (4 ^ n) = 0)

\* Game.handleGameOver
handleGameOver(finalScore) ==
  /\ tempScore' = finalScore
  /\ tempMode' = (IF obstaclesEnabled THEN "obstacles" ELSE "classic")
  /\ SetState(GAME_OVER)
  /\ UNCHANGED sysVars

\* faulty variant of fieldsAtMove: the move is made before the manager runs
fieldsBeforeManager(before, after) == before

\* Game.update, lines 1011 and 1031-1060: powerUpManager.update has run when
\* the snake moves, the food is scored and the magnet pulls, so these read the
\* fields as the manager left them
fieldsAtMove(before, after) == after

\* Game.update: one animation frame.  moveDue is the clock test
\* now - lastSnakeMoveTime > 1000 / GAME_SPEED; types are the kinds the
\* random draw of spawnPowerUp can give.
Update(types) ==
  \E moveDue \in BOOLEAN :
    IF state # PLAY
    THEN /\ idle
         /\ ev' = KeyEvent("update", "none")
    ELSE
      LET c1 == comboUpdate(comboCount, comboTimer) IN
      \E spawned \in spawnPowerUp(body, obstacles, foodPos, powerUps, spawnTimer, types) :
        LET u == powerUpManagerUpdate(powerUps, spawnTimer, gameFields, score, body[1], spawned)
            m1 == u.aged
            m2 == u.m
            am == fieldsAtMove(gameFields, m2)
            mv == move(body, direction, nextDirection, actualDirection,
                       am.invincible, foodPos, obstacles)
            ate == moveDue /\ mv.alive /\ mv.body[1].x = foodPos.x /\ mv.body[1].y = foodPos.y
            body2 == IF moveDue /\ mv.alive THEN mv.body ELSE body
            inc == incrementCombo(c1.comboCount)
            score2 == IF ate
                      THEN u.score + foodScore(obstaclesEnabled, am.scoreMultiplier, inc.multiplier2)
                      ELSE u.score
        IN
        /\ withinBounds(score2, body2, m1, m2, u.collected)
        /\ spawnTimer' = u.spawnTimer
        /\ powerUps' = u.powerUps
        /\ activePowerUps' = m2.activePowerUps
        /\ magnetActive' = m2.magnetActive
        /\ invincible' = m2.invincible
        /\ shrinkActive' = m2.shrinkActive
        /\ scoreMultiplier' = m2.scoreMultiplier
        /\ gameSpeed' = m2.GAME_SPEED
        /\ score' = score2
        /\ body' = body2
        /\ direction' = (IF moveDue THEN mv.direction ELSE direction)
        /\ actualDirection' = (IF moveDue THEN mv.actualDirection ELSE actualDirection)
        /\ comboCount' = (IF ate THEN inc.comboCount ELSE c1.comboCount)
        /\ comboTimer' = (IF ate THEN inc.comboTimer ELSE c1.comboTimer)
        /\ UNCHANGED <<nextDirection, obstacles, obstaclesEnabled>>
        /\ ev' = Event("update", "none",
                       IF ~moveDue THEN "none" ELSE IF mv.alive THEN "ok" ELSE "dead",
                       ate, spawned, u.collected)
        /\ IF moveDue /\ ~mv.alive
           THEN \* the fatal move: handleGameOver, and update returns
                /\ handleGameOver(u.score)
                /\ UNCHANGED foodPos
           ELSE /\ UNCHANGED <<state, currentState, overVars>>
                /\ \E food1 \in (IF ate
                                 THEN getRandomPosition(body2, obstacles, foodPos, u.powerUps, FALSE)
                                 ELSE {foodPos}) :
                     foodPos' = (IF am.magnetActive
                                 THEN attractFood(food1, body2, u.powerUps)
                                 ELSE food1)

\* the complete game: every key, swipes, the page being hidden, frames
Next ==
  \/ KeyDown(Keys)
  \/ Swipe
  \/ VisibilityChange
  \/ Update(PowerUpType)

Spec == Init /\ [][Next]_vars

(***************************************************************************)
(* Rounds with the magnet.  SpecRounds is the game from its construction   *)
(* with a player who toggles the obstacles in the menu, starts rounds with *)
(* Enter (and leaves GAME_OVER with it) and steers up and down; every      *)
(* pickup the manager spawns is a MAGNET.                                  *)
(***************************************************************************)
RoundKeys == {"Enter", "o", "ArrowUp", "ArrowDown"}

NextRounds ==
  \/ KeyDown(RoundKeys)
  \/ Update({MAGNET})

SpecRounds == Init /\ [][NextRounds]_vars

(***************************************************************************)
(* Rounds with the speed effects.  SpecEffects is the game from its        *)
(* construction with a player who starts rounds with Enter and can turn    *)
(* up; every pickup the manager spawns is a SPEED_BOOST, a TIME_SLOW or a  *)
(* SCORE_MULTIPLIER.                                                       *)
(***************************************************************************)
EffectKeys == {"Enter", "ArrowUp"}
EffectKinds == {SPEED_BOOST, TIME_SLOW, SCORE_MULTIPLIER}

NextEffects ==
  \/ KeyDown(EffectKeys)
  \/ Update(EffectKinds)

SpecEffects == Init /\ [][NextEffects]_vars

(***************************************************************************)
(* Rounds and the phases around them.  SpecPhases is the game from its     *)
(* construction with a player who starts a round, pauses and resumes it,   *)
(* steers up and down, hides the page, enters a name after the round and   *)
(* opens the high scores; every pickup the manager spawns is a SHRINK.     *)
(***************************************************************************)
PhaseKeys == {"Enter", "p", "s", "h", "ArrowUp"}

NextPhases ==
  \/ KeyDown(PhaseKeys)
  \/ VisibilityChange
  \/ Update({SHRINK})

SpecPhases == Init /\ [][NextPhases]_vars

(***************************************************************************)
(* The Snake in its round.  SpecSnake starts where Game.resetGame leaves   *)
(* the first round, in classic or in obstacle mode, and then lets every    *)
(* caller of the Snake act in any order: the move handlers (setDirection), *)
(* the frame's Snake.move with the food relocation that follows a meal,    *)
(* the magnet step on the food, and the writes of PowerUp.apply and        *)
(* expirePowerUp to snake.invincible.                                      *)
(***************************************************************************)
InitRound ==
  /\ state = PLAY
  /\ currentState = PLAY
  /\ obstaclesEnabled \in BOOLEAN
  /\ body = startBody
  /\ direction = RIGHT
  /\ nextDirection = RIGHT
  /\ actualDirection = RIGHT
  /\ invincible = FALSE
  /\ shrinkActive = "undefined"
  /\ powerUps = <<>>
  /\ activePowerUps = NoActive
  /\ spawnTimer = 0
  /\ magnetActive = FALSE
  /\ comboCount = 0
  /\ comboTimer = 0
  /\ score = 0
  /\ scoreMultiplier = 1
  /\ gameSpeed = speed(BASE_GAME_SPEED)
  /\ tempScore = 0
  /\ tempMode = "classic"
  /\ InitSys
  /\ foodPos \in {c \in GridCells : ~checkSnakeCollision(c, startBody)}
  /\ obstacles \in (IF obstaclesEnabled
                    THEN obstaclesFrom(OBSTACLE_COUNT, <<>>, foodPos)
                    ELSE {<<>>})
  /\ ev = InitEvent

notSnake == <<currentState, obstaclesEnabled, shrinkActive, obstacles, powerUpVars,
              comboVars, score, scoreMultiplier, gameSpeed, overVars>>

\* a move handler of Game.setupInputHandlers
SnakeSetDirection ==
  \E dir \in Direction :
    /\ state = PLAY
    /\ nextDirection' = setDirection(nextDirection, actualDirection, dir)
    /\ ev' = KeyEvent("input", dir)
    /\ UNCHANGED <<state, body, direction, actualDirection, invincible, foodPos, notSnake>>

\* Game.update, lines 1034-1054: Snake.move, the end of the round on a fatal
\* move, the new food cell after a meal
SnakeMove ==
  LET mv == move(body, direction, nextDirection, actualDirection, invincible, foodPos, obstacles)
      ate == mv.alive /\ mv.body[1].x = foodPos.x /\ mv.body[1].y = foodPos.y
  IN  /\ state = PLAY
      /\ Len(mv.body) <= MaxLen
      /\ body' = mv.body
      /\ direction' = mv.direction
      /\ actualDirection' = mv.actualDirection
      /\ state' = (IF mv.alive THEN PLAY ELSE GAME_OVER)
      /\ foodPos' \in (IF ate
                       THEN getRandomPosition(mv.body, obstacles, foodPos, powerUps, FALSE)
                       ELSE {foodPos})
      /\ ev' = Event("move", "none", IF mv.alive THEN "ok" ELSE "dead", ate, <<>>, <<>>)
      /\ UNCHANGED <<nextDirection, invincible, notSnake>>

\* PowerUp.apply and PowerUpManager.expirePowerUp, INVINCIBILITY
SnakeInvincible ==
  /\ state = PLAY
  /\ invincible' = ~invincible
  /\ ev' = KeyEvent("effect", "none")
  /\ UNCHANGED <<state, body, direction, nextDirection, actualDirection, foodPos, notSnake>>

\* Game.update, lines 1058-1060, with the magnet on
MagnetStep ==
  /\ state = PLAY
  /\ foodPos' = attractFood(foodPos, body, powerUps)
  /\ ev' = KeyEvent("magnet", "none")
  /\ UNCHANGED <<state, snakeVars, notSnake>>

NextSnake ==
  \/ SnakeSetDirection
  \/ SnakeMove
  \/ SnakeInvincible
  \/ MagnetStep

SpecSnake == InitRound /\ [][NextSnake]_vars

(***************************************************************************)
(* The PowerUpManager in its round.  SpecPowerUps starts a classic round   *)
(* and takes Game.update apart into the two calls that concern the         *)
(* pickups: PowerUpManager.update (a frame in which no move is due) and    *)
(* the move of the snake.  The player does not steer: the snake runs       *)
(* along its row, into the wall or, invincible, round the grid; a round    *)
(* that has ended is started again.  The score of the food is left out.    *)
(***************************************************************************)
InitClassic == InitRound /\ ~obstaclesEnabled

\* PowerUpManager.update(game)
PowerUpTick(types) ==
  IF state # PLAY
  THEN /\ ev' = KeyEvent("tick", "none")
       /\ UNCHANGED <<state, currentState, obstaclesEnabled, snakeVars, powerUpVars,
                      comboVars, roundVars, overVars>>
  ELSE
    \E spawned \in spawnPowerUp(body, obstacles, foodPos, powerUps, spawnTimer, types) :
      LET u == powerUpManagerUpdate(powerUps, spawnTimer, gameFields, score, body[1], spawned)
      IN  /\ withinBounds(u.score, body, u.aged, u.m, u.collected)
          /\ powerUps' = u.powerUps
          /\ spawnTimer' = u.spawnTimer
          /\ activePowerUps' = u.m.activePowerUps
          /\ magnetActive' = u.m.magnetActive
          /\ invincible' = u.m.invincible
          /\ shrinkActive' = u.m.shrinkActive
          /\ scoreMultiplier' = u.m.scoreMultiplier
          /\ gameSpeed' = u.m.GAME_SPEED
          /\ score' = u.score
          /\ ev' = Event("tick", "none", "none", FALSE, spawned, u.collected)
          /\ UNCHANGED <<state, currentState, obstaclesEnabled, body, direction,
                         nextDirection, actualDirection, foodPos, obstacles, comboVars,
                         overVars>>

\* the way from GAME_OVER back into a round ends in the play handler
NewRound ==
  /\ state = GAME_OVER
  /\ startRound
  /\ ev' = KeyEvent("input", "none")

NextPowerUps ==
  \/ PowerUpTick(PowerUpType)
  \/ SnakeMove
  \/ NewRound

SpecPowerUps == InitClassic /\ [][NextPowerUps]_vars

(***************************************************************************)
(* The PowerUpManager in a round that keeps running.  SpecCountdown is     *)
(* SpecPowerUps with three kinds of pickup and with the frames and the     *)
(* moves of the game loop taken again and again for as long as the round   *)
(* lasts (requestAnimationFrame calls Game.gameLoop for every frame, and   *)
(* the move clock comes due).  The collection bonus is unbounded in the    *)
(* game; here the score stops counting at MaxScore, so that a round can go *)
(* on for ever in a finite state space.                                    *)
(***************************************************************************)
saturate(sc) == IF sc > MaxScore THEN MaxScore ELSE sc

\* PowerUpManager.update(game), the score counted up to MaxScore
PowerUpTickLong(types) ==
  IF state # PLAY
  THEN /\ ev' = KeyEvent("tick", "none")
       /\ UNCHANGED <<state, currentState, obstaclesEnabled, snakeVars, powerUpVars,
                      comboVars, roundVars, overVars>>
  ELSE
    \E spawned \in spawnPowerUp(body, obstacles, foodPos, powerUps, spawnTimer, types) :
      LET u == powerUpManagerUpdate(powerUps, spawnTimer, gameFields, score, body[1], spawned)
      IN  /\ withinBounds(0, body, u.aged, u.m, u.collected)
          /\ powerUps' = u.powerUps
          /\ spawnTimer' = u.spawnTimer
          /\ activePowerUps' = u.m.activePowerUps
          /\ magnetActive' = u.m.magnetActive
          /\ invincible' = u.m.invincible
          /\ shrinkActive' = u.m.shrinkActive
          /\ scoreMultiplier' = u.m.scoreMultiplier
          /\ gameSpeed' = u.m.GAME_SPEED
          /\ score' = saturate(u.score)
          /\ ev' = Event("tick", "none", "none", FALSE, spawned, u.collected)
          /\ UNCHANGED <<state, currentState, obstaclesEnabled, body, direction,
                         nextDirection, actualDirection, foodPos, obstacles, comboVars,
                         overVars>>

\* the kinds the random draw gives in SpecCountdown
CountdownKinds == {INVINCIBILITY, SPEED_BOOST, TIME_SLOW}

NextCountdown ==
  \/ PowerUpTickLong(CountdownKinds)
  \/ SnakeMove
  \/ NewRound

SpecCountdown ==
  /\ InitClassic
  /\ [][NextCountdown]_vars
  /\ WF_vars(PowerUpTickLong(CountdownKinds))
  /\ WF_vars(SnakeMove)

(***************************************************************************)
(* The ComboSystem and the score.  SpecScoring starts where Game.resetGame *)
(* leaves the first round, in classic or in obstacle mode, and then lets   *)
(* the callers of the ComboSystem act in any order: the frame's            *)
(* comboSystem.update(), the meal (Game.handleFoodCollection) and the      *)
(* SCORE_MULTIPLIER effect coming and going.                               *)
(***************************************************************************)
notScoring == <<state, currentState, obstaclesEnabled, snakeVars, obstacles, powerUps,
                activePowerUps, spawnTimer, magnetActive, gameSpeed, overVars>>

\* Game.update, line 1009: comboSystem.update()
ComboTick ==
  LET c == comboUpdate(comboCount, comboTimer)
  IN  /\ state = PLAY
      /\ comboCount' = c.comboCount
      /\ comboTimer' = c.comboTimer
      /\ ev' = KeyEvent("combo", "none")
      /\ UNCHANGED <<score, scoreMultiplier, foodPos, notScoring>>

\* Game.handleFoodCollection
FoodCollection ==
  LET inc == incrementCombo(comboCount)
      totalScore == foodScore(obstaclesEnabled, scoreMultiplier, inc.multiplier2)
  IN  /\ state = PLAY
      /\ inc.comboCount <= MaxCombo
      /\ score + totalScore <= MaxPoints
      /\ comboCount' = inc.comboCount
      /\ comboTimer' = inc.comboTimer
      /\ score' = score + totalScore
      /\ foodPos' \in getRandomPosition(body, obstacles, foodPos, powerUps, FALSE)
      /\ ev' = Event("food", "none", "none", TRUE, <<>>, <<>>)
      /\ UNCHANGED <<scoreMultiplier, notScoring>>

\* PowerUp.apply and PowerUpManager.expirePowerUp, SCORE_MULTIPLIER
ScoreEffect ==
  /\ state = PLAY
  /\ scoreMultiplier' = (IF scoreMultiplier = 1 THEN 2 ELSE 1)
  /\ ev' = KeyEvent("effect", "none")
  /\ UNCHANGED <<score, comboVars, foodPos, notScoring>>

NextScoring ==
  \/ ComboTick
  \/ FoodCollection
  \/ ScoreEffect

SpecScoring == InitRound /\ [][NextScoring]_vars

(***************************************************************************)
(* Frames with invincibility and the magnet.  SpecOrder is the game from   *)
(* its construction with a player who starts a round with Enter and can    *)
(* turn up; every pickup the manager spawns is an INVINCIBILITY or a       *)
(* MAGNET.                                                                 *)
(***************************************************************************)
OrderKinds == {INVINCIBILITY, MAGNET}

NextOrder ==
  \/ KeyDown(EffectKeys)
  \/ Update(OrderKinds)

SpecOrder == Init /\ [][NextOrder]_vars

(***************************************************************************)
(* The search for a free cell.  SpecFind starts a round, lets the manager  *)
(* put pickups on the field and then calls findValidPosition with any      *)
(* options, one pass of its loop per step: a sample is any cell of the     *)
(* grid.  Nothing else runs while a call is under way.                     *)
(***************************************************************************)
Options == [excludeFood : BOOLEAN, excludePowerUps : BOOLEAN]

findRunning == options # <<>> /\ returned = <<>>

\* PowerUpManager.update before the first call
FieldTick ==
  /\ options = <<>>
  /\ PowerUpTick({SHRINK})

\* CollisionSystem.findValidPosition(game, options) is called
FindCall ==
  /\ ~findRunning
  /\ \E o \in Options : options' = <<o>>
  /\ attempts' = 0
  /\ returned' = <<>>
  /\ ev' = KeyEvent("find", "none")
  /\ UNCHANGED <<state, currentState, obstaclesEnabled, snakeVars, powerUpVars, comboVars,
                 roundVars, tempScore, tempMode, scoreVars, loopVars>>

\* one pass of the loop: a cell is sampled and returned if it is valid
FindSample ==
  /\ findRunning
  /\ moreAttempts(attempts)
  /\ attempts' = attempts + 1
  /\ \E position \in GridCells :
       returned' = (IF isValidPosition(position, body, obstacles, foodPos, powerUps,
                                       options[1].excludeFood, options[1].excludePowerUps)
                    THEN <<position>> ELSE <<>>)
  /\ ev' = KeyEvent("find", "none")
  /\ UNCHANGED <<state, currentState, obstaclesEnabled, snakeVars, powerUpVars, comboVars,
                 roundVars, tempScore, tempMode, scoreVars, loopVars, options>>

\* the loop is left after maxAttempts samples: the fallback position
FindGiveUp ==
  /\ findRunning
  /\ ~moreAttempts(attempts)
  /\ returned' = <<Cell(0, 0)>>
  /\ ev' = KeyEvent("find", "none")
  /\ UNCHANGED <<state, currentState, obstaclesEnabled, snakeVars, powerUpVars, comboVars,
                 roundVars, tempScore, tempMode, scoreVars, loopVars, options, attempts>>

NextFind ==
  \/ FieldTick
  \/ FindCall
  \/ FindSample
  \/ FindGiveUp

SpecFind == InitRound /\ [][NextFind]_vars

(***************************************************************************)
(* The start and the loop.  SpecLoop is the game from its construction:    *)
(* Game.start waits for the two assets, the browser reports an asset       *)
(* loaded or failed when it will, the audio timer runs out, the loop is    *)
(* entered and requests frame after frame; any frame can end in an error.  *)
(* The player starts rounds with Enter; every pickup the manager spawns is *)
(* a SHRINK.  The timer and the continuation of Game.start are scheduled   *)
(* by the host and are taken when they can be; the events of the browser   *)
(* and the frames are not.  Of the audio's events and its timer only the   *)
(* first, the one that resolves the promise, is part of this scenario;     *)
(* SpecAssets has them all.                                                *)
(***************************************************************************)
\* ErrorManager, recovery strategy 'game_loop': context.errorCount > 10
errorLimit == 2

notLoop == <<state, currentState, obstaclesEnabled, snakeVars, powerUpVars, comboVars,
             roundVars, tempScore, tempMode, scoreVars, findVars, soundVars>>

\* AssetLoader.loadImage: img.onload or img.onerror, both resolve the
\* promise; onerror records the failure
ImageSettles ==
  /\ imageLoad = "pending"
  /\ imageLoad' \in {"loaded", "failed"}
  /\ loadErrors' = (IF imageLoad' = "failed"
                    THEN Append(loadErrors, [type |-> "image", error |-> "event"])
                    ELSE loadErrors)
  /\ ev' = KeyEvent("asset", "none")
  /\ UNCHANGED <<notLoop, audioLoad, loopRunning, errorCount, criticalError, sounds,
                 delivered>>

\* resolve(value) of the promise of loadAudio: only the first call counts
resolveAudio(value) == IF audioLoad = "pending" THEN value ELSE audioLoad

\* AssetLoader.loadAudio, lines 32-35: the canplaythrough listener (once)
CanPlayThrough ==
  /\ "canplaythrough" \notin delivered
  /\ delivered' = delivered \cup {"canplaythrough"}
  /\ sounds' = TRUE
  /\ audioLoad' = resolveAudio("loaded")
  /\ ev' = KeyEvent("asset", "none")
  /\ UNCHANGED <<notLoop, imageLoad, loopRunning, errorCount, criticalError, loadErrors>>

\* AssetLoader.loadAudio, lines 37-42: audio.onerror
AudioError ==
  /\ "error" \notin delivered
  /\ delivered' = delivered \cup {"error"}
  /\ loadErrors' = Append(loadErrors, [type |-> "audio", error |-> "event"])
  /\ audioLoad' = resolveAudio("failed")
  /\ ev' = KeyEvent("asset", "none")
  /\ UNCHANGED <<notLoop, imageLoad, loopRunning, errorCount, criticalError, sounds>>

\* AssetLoader.loadAudio, lines 49-56: the callback of setTimeout(..., 5000)
AudioTimer ==
  /\ "timeout" \notin delivered
  /\ delivered' = delivered \cup {"timeout"}
  /\ IF ~sounds
     THEN /\ loadErrors' = Append(loadErrors, [type |-> "audio", error |-> "timeout"])
          /\ audioLoad' = resolveAudio("timeout")
     ELSE UNCHANGED <<loadErrors, audioLoad>>
  /\ ev' = KeyEvent("asset", "none")
  /\ UNCHANGED <<notLoop, imageLoad, loopRunning, errorCount, criticalError, sounds>>

\* the first event of the audio: canplaythrough or error resolves the promise
AudioSettles ==
  /\ audioLoad = "pending"
  /\ CanPlayThrough \/ AudioError

\* the timer fires before either event: it resolves the promise
AudioTimeout ==
  /\ audioLoad = "pending"
  /\ AudioTimer

\* Game.start after await loadAssets(): Promise.allSettled over both promises
\* has settled, and gameLoop is called
StartResume ==
  /\ imageLoad # "pending"
  /\ audioLoad # "pending"
  /\ ~loopRunning /\ ~criticalError
  /\ loopRunning' = TRUE
  /\ ev' = KeyEvent("start", "none")
  /\ UNCHANGED <<notLoop, imageLoad, audioLoad, errorCount, criticalError, assetVars>>

\* Game.gameLoop, a frame whose update and render return
GameLoop(types) ==
  /\ loopRunning
  /\ Update(types)

\* Game.gameLoop, a frame that ends in an error: handleGameLoopError, and no
\* further frame is requested once criticalError is set.  What the frame did
\* before the error is left out.
GameLoopError ==
  /\ loopRunning
  /\ errorCount' = errorCount + 1
  /\ IF errorCount' > errorLimit
     THEN /\ criticalError' = TRUE
          /\ SetState(GAME_OVER)
          /\ loopRunning' = FALSE
     ELSE UNCHANGED <<criticalError, state, currentState, loopRunning>>
  /\ ev' = KeyEvent("error", "none")
  /\ UNCHANGED <<obstaclesEnabled, snakeVars, powerUpVars, comboVars, roundVars,
                 tempScore, tempMode, scoreVars, findVars, imageLoad, audioLoad, assetVars,
                 soundVars>>

NextLoop ==
  \/ ImageSettles
  \/ AudioSettles
  \/ AudioTimeout
  \/ StartResume
  \/ KeyDown({"Enter"})
  \/ GameLoop({SHRINK})
  \/ GameLoopError

SpecLoop ==
  /\ Init
  /\ [][NextLoop]_vars
  /\ WF_vars(AudioTimeout)
  /\ WF_vars(StartResume)

(***************************************************************************)
(* The high scores.  SpecScores is the ScoreManager of a game in its menu, *)
(* with nothing stored: scores from 0 to MaxFinal are added to either      *)
(* list, the lists are cleared, and the store may reject any write.        *)
(***************************************************************************)
notScores == <<state, currentState, obstaclesEnabled, snakeVars, powerUpVars, comboVars,
               roundVars, tempScore, tempMode, findVars, loopVars>>

\* ScoreManager.addScore(name, score, mode)
AddAnyScore ==
  /\ \E sc \in 0..MaxFinal, mode \in Modes : AddScore(sc, mode)
  /\ ev' = KeyEvent("addScore", "none")
  /\ UNCHANGED notScores

\* ScoreManager.clearScores
ClearScores ==
  /\ highScores' = EmptyScores
  /\ \E accepted \in BOOLEAN : stored' = saveScores(stored, highScores', accepted)
  /\ scoresAdded' = [mode \in Modes |-> EmptyBag]
  /\ ev' = KeyEvent("clearScores", "none")
  /\ UNCHANGED notScores

NextScores ==
  \/ AddAnyScore
  \/ ClearScores

SpecScores == Init /\ [][NextScores]_vars

(***************************************************************************)
(* The menus and the pause.  SpecMenu is the game once Game.start has      *)
(* called gameLoop (both assets loaded), before any key: the player opens  *)
(* the high scores and the settings and goes back, starts a round with P,  *)
(* pauses and resumes it with P and Escape, turns down and hides the page; *)
(* any frame can end in an error; every pickup the manager spawns is a     *)
(* SHRINK.  No name is entered after the round, so there is one round.     *)
(***************************************************************************)
MenuKeys == {"p", "s", "h", "b", "Escape"}

\* the state Game.start leaves when loadAssets has settled with both assets
InitStarted ==
  /\ InitGame
  /\ highScores = EmptyScores
  /\ stored = <<>>
  /\ scoresAdded = [mode \in Modes |-> EmptyBag]
  /\ options = <<>>
  /\ attempts = 0
  /\ returned = <<>>
  /\ imageLoad = "loaded"
  /\ audioLoad = "loaded"
  /\ loopRunning = TRUE
  /\ errorCount = 0
  /\ criticalError = FALSE
  /\ sounds = TRUE
  /\ loadErrors = <<>>
  /\ delivered = {"canplaythrough"}
  /\ soundManager = NewSoundManager
  /\ soundCalls = <<>>

NextMenu ==
  \/ KeyDown(MenuKeys)
  \/ VisibilityChange
  \/ GameLoop({SHRINK})
  \/ GameLoopError

SpecMenu == InitStarted /\ [][NextMenu]_vars

(***************************************************************************)
(* One round after another.  SpecAgain is the game from its construction   *)
(* with a player who never steers: Enter starts a round from the menu and  *)
(* enters the name after it, B leaves the high scores for the menu, and    *)
(* the next round starts; every pickup the manager spawns is a MAGNET.     *)
(***************************************************************************)
AgainKeys == {"Enter", "b"}

\* a name is entered after the first MaxRounds - 1 rounds only
NextAgain ==
  \/ KeyDown(AgainKeys) /\ addedSoFar' < MaxRounds
  \/ Update({MAGNET})

SpecAgain == Init /\ [][NextAgain]_vars

(***************************************************************************)
(* The loading of the assets.  SpecAssets is the game from its             *)
(* construction with Game.start under way: the image loads or fails, the   *)
(* audio's canplaythrough and error events and the 5-second timer of       *)
(* loadAudio each come once, in any order and at any time, also after the  *)
(* promise has resolved and the loop has started.  The player stays in the *)
(* menus (H and B).                                                        *)
(***************************************************************************)
AssetKeys == {"h", "b"}

NextAssets ==
  \/ ImageSettles
  \/ CanPlayThrough
  \/ AudioError
  \/ AudioTimer
  \/ StartResume
  \/ KeyDown(AssetKeys)
  \/ GameLoop({SHRINK})

SpecAssets == Init /\ [][NextAssets]_vars

(***************************************************************************)
(* SoundManager (js/systems/sound.js).  initialize, playSound and          *)
(* playBackgroundMusic are async: a call runs up to its next await in one  *)
(* step and goes on in a later one.  initialize has two awaits, behind     *)
(* createReverb and behind the race of the resumed context with the 3 s    *)
(* timer, and sets isInitialized only after the second, or in its catch.   *)
(* A node is modelled by the number of the AudioContext it was made by;    *)
(* connect throws between nodes of two contexts.  The AudioContext         *)
(* constructor is taken to succeed.                                        *)
(***************************************************************************)
\* the AudioContext objects constructed so far
contextsCreated == Cardinality({i \in 1..Len(soundCalls) : soundCalls[i].ctx > 0})

\* playSound below its await: the oscillator is made by this.audioCtx and
\* connected to this.masterGain; playBackgroundMusic plays the audio element
playThrough(kind, sm) == IF kind = "sound" THEN sm.masterGain ELSE 0

\* playSound / playBackgroundMusic are called: with isInitialized set the
\* call plays at once, otherwise it calls initialize, which constructs an
\* AudioContext and stops at createReverb
SoundCall ==
  /\ Len(soundCalls) < MaxCalls
  /\ \E kind \in {"sound", "music"} :
       IF soundManager.isInitialized
       THEN /\ soundCalls' = Append(soundCalls,
                                    [kind |-> kind, stage |-> "done", ctx |-> 0,
                                     through |-> playThrough(kind, soundManager)])
            /\ UNCHANGED soundManager
       ELSE /\ soundManager' = [soundManager EXCEPT !.audioCtx = contextsCreated + 1,
                                                       !.masterGain = contextsCreated + 1,
                                                       !.compressor = contextsCreated + 1]
            /\ soundCalls' = Append(soundCalls,
                                    [kind |-> kind, stage |-> "reverb",
                                     ctx |-> contextsCreated + 1, through |-> 0])
  /\ ev' = KeyEvent("sound", "none")
  /\ UNCHANGED <<state, currentState, obstaclesEnabled, snakeVars, powerUpVars, comboVars,
                 roundVars, tempScore, tempMode, scoreVars, findVars, imageLoad, audioLoad,
                 loopRunning, errorCount, criticalError, assetVars>>

\* initialize goes on behind createReverb, the oldest such call first: it
\* stores its convolver and connects masterGain, compressor, reverbNode and
\* the destination of this.audioCtx; a connect between two contexts throws
\* and the catch sets isInitialized; otherwise it stops at the race
ReverbResumes(i) ==
  /\ soundCalls[i].stage = "reverb"
  /\ \A j \in 1..(i - 1) : soundCalls[j].stage # "reverb"
  /\ LET own == soundCalls[i].ctx
         throws == soundManager.compressor # own
     IN /\ soundManager' = [soundManager EXCEPT !.reverbNode = own,
                                                 !.isInitialized = @ \/ throws]
        /\ soundCalls' = [soundCalls EXCEPT ![i].stage = IF throws THEN "ready" ELSE "wait"]
  /\ ev' = KeyEvent("sound", "none")
  /\ UNCHANGED <<state, currentState, obstaclesEnabled, snakeVars, powerUpVars, comboVars,
                 roundVars, tempScore, tempMode, scoreVars, findVars, imageLoad, audioLoad,
                 loopRunning, errorCount, criticalError, assetVars>>

\* initialize goes on behind Promise.race: isInitialized = true, and it returns
WaitResumes(i) ==
  /\ soundCalls[i].stage = "wait"
  /\ soundManager' = [soundManager EXCEPT !.isInitialized = TRUE]
  /\ soundCalls' = [soundCalls EXCEPT ![i].stage = "ready"]
  /\ ev' = KeyEvent("sound", "none")
  /\ UNCHANGED <<state, currentState, obstaclesEnabled, snakeVars, powerUpVars, comboVars,
                 roundVars, tempScore, tempMode, scoreVars, findVars, imageLoad, audioLoad,
                 loopRunning, errorCount, criticalError, assetVars>>

\* playSound / playBackgroundMusic go on behind 'await this.initialize()'
CallResumes(i) ==
  /\ soundCalls[i].stage = "ready"
  /\ soundCalls' = [soundCalls EXCEPT ![i].stage = "done",
                                      ![i].through = playThrough(soundCalls[i].kind,
                                                                 soundManager)]
  /\ ev' = KeyEvent("sound", "none")
  /\ UNCHANGED <<state, currentState, obstaclesEnabled, snakeVars, powerUpVars, comboVars,
                 roundVars, tempScore, tempMode, scoreVars, findVars, imageLoad, audioLoad,
                 loopRunning, errorCount, criticalError, assetVars, soundManager>>

NextSound ==
  \/ SoundCall
  \/ \E i \in 1..Len(soundCalls) : ReverbResumes(i)
  \/ \E i \in 1..Len(soundCalls) : WaitResumes(i)
  \/ \E i \in 1..Len(soundCalls) : CallResumes(i)

SpecSound == Init /\ [][NextSound]_vars

(* ---- Properties of the Snake ---- *)

\* the step just taken called Snake.move
Moved == ev'.moved # "none"

\* the cell one step from the head in direction dir, computed from the grid
Ahead(dir) ==
  LET h == body[1]
  IN  [x |-> h.x + (IF dir = RIGHT THEN 1 ELSE IF dir = LEFT THEN -1 ELSE 0),
       y |-> h.y + (IF dir = DOWN THEN 1 ELSE IF dir = UP THEN -1 ELSE 0)]

OffGrid(c) == c.x < 0 \/ c.x > GRID_COLS - 1 \/ c.y < 0 \/ c.y > GRID_ROWS - 1
OnBody(c, b) == \E i \in 1..Len(b) : b[i] = c
OnObstacle(c) == \E i \in 1..Len(obstacles) : obstacles[i] = c
NoDuplicates(b) == \A i, j \in 1..Len(b) : i # j => b[i] # b[j]

\* C1: the direction a move is made in is never the opposite of the direction
\* of the previous move (actualDirection before the move), whatever requests
\* came in between, and a request for the opposite of actualDirection leaves
\* nextDirection as it was.
C1_NoReversal ==
  [][ /\ Moved => direction' # opposite(actualDirection)
      /\ (ev'.op = "input" /\ ev'.dir \in Direction /\ state = PLAY
          /\ ev'.dir = opposite(actualDirection))
         => nextDirection' = nextDirection ]_vars

\* a reverse request was just ignored, after the snake had turned
C1_Witness ==
  /\ ev.op = "input"
  /\ state = PLAY
  /\ actualDirection # RIGHT
  /\ ev.dir = opposite(actualDirection)
  /\ nextDirection # ev.dir

\* C2: a move made while not invincible whose target cell is off the grid, on
\* the body (tail included) or on an obstacle reports death and leaves the body
\* as it was.
C2_FatalMove ==
  [][ (Moved /\ ~invincible'
       /\ LET t == Ahead(direction')
          IN  OffGrid(t) \/ OnBody(t, body) \/ OnObstacle(t))
      => (ev'.moved = "dead" /\ body' = body) ]_vars

\* the snake has just died on an obstacle
C2_Witness ==
  /\ ev.moved = "dead"
  /\ ~invincible
  /\ OnObstacle(Ahead(direction))

C4_Growth ==
  [][ Moved
      => /\ Len(body') \in {Len(body), Len(body) + 1}
         /\ (Len(body') = Len(body) + 1) <=> (ev'.moved = "ok" /\ body'[1] = foodPos) ]_vars

\* the snake has just eaten and is one cell longer than at the start
C4_Witness ==
  /\ ev.moved = "ok"
  /\ ev.ate
  /\ Len(body) = START_LENGTH + 1

C6_InBounds ==
  \A i \in 1..Len(body) :
    /\ 0 <= body[i].x /\ body[i].x < GRID_COLS
    /\ 0 <= body[i].y /\ body[i].y < GRID_ROWS

\* an invincible snake lies across the right/left edge after a wrap
C6_Witness ==
  /\ ev.moved = "ok"
  /\ Len(body) >= 3
  /\ body[1].x = 1 /\ body[2].x = 0 /\ body[3].x = GRID_COLS - 1

(* ---- Properties of the food and of the pickups ---- *)

OnPickup(c, pus) == \E i \in 1..Len(pus) : pus[i].x = c.x /\ pus[i].y = c.y

\* C7: in a round the food cell is never a cell of the snake nor an obstacle
\* cell.  The cell (0,0), which findValidPosition returns untested after 100
\* failed draws, is set aside, so that a violation shows a cell the code
\* moved the food to after its own test.
C7_FoodFree ==
  state = PLAY =>
    \/ foodPos = [x |-> 0, y |-> 0]
    \/ ~OnBody(foodPos, body) /\ ~OnObstacle(foodPos)

\* C8: at most POWERUP_COUNT pickups are on the field.
C8_AtMostCount == Len(powerUps) <= POWERUP_COUNT

\* a spawn was due on a full field and no pickup was added
C8_Witness ==
  /\ ev.op = "tick"
  /\ state = PLAY
  /\ spawnTimer = 0
  /\ ev.spawned = <<>>
  /\ ev.collected = <<>>
  /\ Len(powerUps) = POWERUP_COUNT

\* C9: the cell a pickup is spawned on is not a cell of the snake, not an
\* obstacle, not the food and not the cell of another pickup.  The untested
\* fallback cell (0,0) is set aside as in C7.
C9_SpawnFree ==
  [][ ev'.spawned # <<>>
      => LET c == [x |-> ev'.spawned[1].x, y |-> ev'.spawned[1].y]
         IN  \/ c = [x |-> 0, y |-> 0]
             \/ /\ ~OnBody(c, body)
                /\ ~OnObstacle(c)
                /\ c # foodPos
                /\ ~OnPickup(c, powerUps) ]_vars

\* the pickups of this frame that lie on the head, in field order
RECURSIVE Split(_, _, _)
Split(pus, h, onHead) ==
  IF pus = <<>> THEN <<>>
  ELSE LET p == Head(pus)
           hit == p.x = h.x /\ p.y = h.y
       IN  (IF hit = onHead THEN <<p>> ELSE <<>>) \o Split(Tail(pus), h, onHead)

Expiring == \E k \in DOMAIN activePowerUps : activePowerUps[k] <= 1

\* C10: in a frame of a round, the pickups on the cell of the head (as it is
\* before the frame's move) are removed from the field and the others stay;
\* for each kind removed its effect is in force after the frame and its
\* entry in activePowerUps is POWERUP_DURATION; in a frame with no pickup
\* on the head nothing is applied: the entries only age.
C10_Collection ==
  [][ (ev'.op \in {"tick", "update"} /\ state = PLAY)
      => LET field == powerUps \o ev'.spawned
             taken == Split(field, body[1], TRUE)
             kinds == {taken[i].type : i \in 1..Len(taken)}
         IN  /\ powerUps' = Split(field, body[1], FALSE)
             /\ \A k \in kinds :
                  /\ k \in DOMAIN activePowerUps'
                  /\ activePowerUps'[k] = POWERUP_DURATION
             /\ INVINCIBILITY \in kinds => invincible'
             /\ SCORE_MULTIPLIER \in kinds => scoreMultiplier' = 2
             /\ MAGNET \in kinds => magnetActive'
             /\ SHRINK \in kinds => shrinkActive' = "true"
             /\ (kinds = {SPEED_BOOST} /\ Len(taken) = 1 /\ ~Expiring)
                  => gameSpeed' = gameSpeed + SPEED_BOOST_STEP * SPEED_UNIT
             /\ (kinds = {TIME_SLOW} /\ Len(taken) = 1 /\ ~Expiring)
                  => 4 * gameSpeed' = gameSpeed
             /\ kinds = {}
                  => /\ DOMAIN activePowerUps' \subseteq DOMAIN activePowerUps
                     /\ \A k \in DOMAIN activePowerUps' :
                          activePowerUps'[k] = activePowerUps[k] - 1
                     /\ ~Expiring
                          => /\ gameSpeed' = gameSpeed
                             /\ invincible' = invincible
                             /\ scoreMultiplier' = scoreMultiplier
                             /\ magnetActive' = magnetActive
                             /\ shrinkActive' = shrinkActive ]_vars

\* a second INVINCIBILITY was collected while the first was in force
C10_Witness ==
  /\ ev.op = "tick"
  /\ ev.collected = <<INVINCIBILITY>>
  /\ score = 2 * BASE_BONUS
  /\ powerUps = <<>>
  /\ activePowerUps[INVINCIBILITY] = POWERUP_DURATION

(* ---- Properties of the effects ---- *)

\* the kinds collected in the step just taken
Collected == {ev'.collected[i] : i \in 1..Len(ev'.collected)}

\* the kind is in force and the ageing loop of the coming frame keeps it
StaysActive(k) == k \in DOMAIN activePowerUps /\ activePowerUps[k] > 1

\* C11: a frame that collects a pickup of a kind whose effect is in force
\* (and is not running out in that frame) leaves the magnitude at what the
\* frame's ageing loop left: gameSpeed after a second SPEED_BOOST or a second
\* TIME_SLOW is the speed before it, scoreMultiplier stays 2; the entry of
\* the kind is POWERUP_DURATION.
C11_NoStacking ==
  [][ (ev'.op = "update" /\ state = PLAY)
      => \A k \in Collected :
           StaysActive(k)
             => /\ activePowerUps'[k] = POWERUP_DURATION
                /\ gameSpeed' = ageActivePowerUps(gameFields).GAME_SPEED
                /\ scoreMultiplier' = ageActivePowerUps(gameFields).scoreMultiplier ]_vars

\* the game fields with shrinkActive read as a condition: a Snake that never
\* shrank has no shrinkActive field, which counts as false
asCondition(m) == [m EXCEPT !.shrinkActive = (@ = "true")]

\* C12: in a round with no effect in force, applying any of the six kinds
\* and reversing it at once gives back the game fields as they were:
\* GAME_SPEED, scoreMultiplier, invincible, shrinkActive (as a condition),
\* magnetActive and activePowerUps.
C12_RoundTrip ==
  (state = PLAY /\ activePowerUps = NoActive)
    => \A k \in PowerUpType :
         asCondition(expirePowerUp(k, apply(k, gameFields))) = asCondition(gameFields)

\* the speed kinds other than k that the step just taken collects or reverses
OtherSpeedChange(k) ==
  \E j \in {SPEED_BOOST, TIME_SLOW} \ {k} :
    \/ j \in Collected
    \/ j \in DOMAIN activePowerUps /\ activePowerUps[j] <= 1

\* the effect of kind k is reversed in the step just taken
Reversed(k) ==
  CASE k = INVINCIBILITY -> ~invincible'
    [] k = SCORE_MULTIPLIER -> scoreMultiplier' = 1
    [] k = MAGNET -> ~magnetActive'
    [] k = SHRINK -> shrinkActive' = "false"
    [] k = SPEED_BOOST ->
         OtherSpeedChange(k) \/
         gameSpeed' = Max(speed(BASE_GAME_SPEED), gameSpeed - speed(SPEED_BOOST_STEP))
    [] k = TIME_SLOW -> OtherSpeedChange(k) \/ gameSpeed' = speed(BASE_GAME_SPEED)

\* C13 (the countdown): every entry of activePowerUps is between 1 and
\* POWERUP_DURATION; a frame of a round takes one from every entry whose
\* kind it does not collect, and an entry that was 1 is deleted and its
\* effect reversed in that frame (a kind collected in the frame has the
\* entry POWERUP_DURATION after it).  An effect is therefore reversed
\* exactly POWERUP_DURATION frames after the last collection of its kind.
C13_Countdown ==
  [][ /\ \A k \in DOMAIN activePowerUps' : activePowerUps'[k] \in 1..POWERUP_DURATION
      /\ (ev'.op = "tick" /\ state = PLAY)
           => \A k \in DOMAIN activePowerUps :
                IF k \in Collected
                THEN activePowerUps'[k] = POWERUP_DURATION
                ELSE IF activePowerUps[k] > 1
                THEN /\ k \in DOMAIN activePowerUps'
                     /\ activePowerUps'[k] = activePowerUps[k] - 1
                ELSE /\ k \notin DOMAIN activePowerUps'
                     /\ Reversed(k) ]_vars

\* an effect collected once in this round has just run out: nothing is
\* active any more and invincibility is off
C13_Witness ==
  /\ ev.op = "tick"
  /\ state = PLAY
  /\ ev.collected = <<>>
  /\ score = BASE_BONUS
  /\ activePowerUps = NoActive
  /\ spawnTimer = 1
  /\ ~invincible

\* C13 as stated, its last clause, for INVINCIBILITY: in a round that keeps
\* running an invincibility in force is reversed at some later frame.
C13_EventuallyReversed ==
  (state = PLAY /\ INVINCIBILITY \in DOMAIN activePowerUps)
    ~> (state # PLAY \/ ~invincible)

\* GAME_SPEED with one speed effect applied to the base speed
speedWith(k) ==
  IF k = SPEED_BOOST THEN speed(BASE_GAME_SPEED + SPEED_BOOST_STEP)
  ELSE speed(BASE_GAME_SPEED) \div 4

\* GAME_SPEED with both speed effects applied once to the base speed, in
\* either order
BothSpeeds ==
  {speedWith(TIME_SLOW) + speed(SPEED_BOOST_STEP), speedWith(SPEED_BOOST) \div 4}

\* C14: a frame in which one of SPEED_BOOST and TIME_SLOW runs out while the
\* other stays in force (both applied once, none collected in the frame)
\* leaves GAME_SPEED at the value the other effect alone gives.
C14_ExpiryKeepsOther ==
  [][ (ev'.op = "update" /\ state = PLAY /\ gameSpeed \in BothSpeeds
         /\ Collected \cap {SPEED_BOOST, TIME_SLOW} = {})
      => \A k \in {SPEED_BOOST, TIME_SLOW} :
           \A j \in {SPEED_BOOST, TIME_SLOW} \ {k} :
             (k \in DOMAIN activePowerUps /\ activePowerUps[k] = 1 /\ StaysActive(j))
               => gameSpeed' = speedWith(j) ]_vars

\* the speed kinds in force
SpeedKinds == DOMAIN activePowerUps \cap {SPEED_BOOST, TIME_SLOW}

\* C15: from GAME_SPEED 8 with no speed effect in force, the frame that
\* collects a TIME_SLOW leaves GAME_SPEED 2; with that TIME_SLOW in force
\* the frame that collects a SPEED_BOOST leaves 5; and the frame in which
\* the TIME_SLOW then runs out, the SPEED_BOOST staying in force, leaves 8.
C15_Scenario ==
  [][ (ev'.op = "update" /\ state = PLAY)
      => /\ (gameSpeed = speed(8) /\ SpeedKinds = {} /\ ev'.collected = <<TIME_SLOW>>)
              => gameSpeed' = speed(2)
         /\ (gameSpeed = speed(2) /\ SpeedKinds = {TIME_SLOW} /\ StaysActive(TIME_SLOW)
               /\ ev'.collected = <<SPEED_BOOST>>)
              => gameSpeed' = speed(5)
         /\ (gameSpeed = speed(5) /\ SpeedKinds = {SPEED_BOOST, TIME_SLOW}
               /\ activePowerUps[TIME_SLOW] = 1 /\ StaysActive(SPEED_BOOST)
               /\ ev'.collected = <<>>)
              => gameSpeed' = speed(8) ]_vars

\* the scenario has run to its end: two pickups collected, the TIME_SLOW
\* first, and the TIME_SLOW has run out under the SPEED_BOOST
C15_Witness ==
  /\ ev.op = "update"
  /\ state = PLAY
  /\ ev.collected = <<>>
  /\ score = 2 * BASE_BONUS
  /\ DOMAIN activePowerUps = {SPEED_BOOST}
  /\ gameSpeed = speed(8)

\* C34: whenever neither SPEED_BOOST nor TIME_SLOW is in activePowerUps,
\* GAME_SPEED is BASE_GAME_SPEED, whatever was collected before in the round.
C34_BaseSpeedWithoutSpeedEffect ==
  (state = PLAY /\ SpeedKinds = {}) => gameSpeed = speed(BASE_GAME_SPEED)

(* ---- Properties of the combo and of the score ---- *)

\* C16: whatever the callers of the ComboSystem do in a round, comboCount
\* goes up only in a meal (incrementCombo, by one) and goes down only to 0,
\* in the update() that takes comboTimer from 1 to 0.
C16_ComboChanges ==
  [][ /\ comboCount' > comboCount
           => (ev'.op = "food" /\ comboCount' = comboCount + 1)
      /\ comboCount' < comboCount
           => /\ ev'.op = "combo"
              /\ comboCount' = 0
              /\ comboTimer = 1
              /\ comboTimer' = 0 ]_vars

\* meals were eaten and the combo has been lost
C16_Witness ==
  /\ ev.op = "combo"
  /\ comboCount = 0
  /\ comboTimer = 0
  /\ ~obstaclesEnabled
  /\ scoreMultiplier = 1
  /\ score = 4

\* C17: a meal leaves comboTimer at COMBO_DECAY_TIME; every update() after
\* it that finds the timer above 1 takes one from the timer and leaves
\* comboCount alone, and the update() that finds the timer at 1, the
\* COMBO_DECAY_TIME-th since the meal, leaves comboCount 0 and the
\* multiplier 1.0.  A combo in progress has its timer in
\* 1..COMBO_DECAY_TIME.
C17_Decay ==
  [][ /\ ev'.op = "food" => comboTimer' = COMBO_DECAY_TIME
      /\ (ev'.op = "combo" /\ comboTimer > 1)
           => (comboCount' = comboCount /\ comboTimer' = comboTimer - 1)
      /\ (ev'.op = "combo" /\ comboTimer = 1)
           => (comboCount' = 0 /\ comboTimer' = 0 /\ comboMultiplier2(comboCount') = 2)
      /\ comboCount' > 0 => comboTimer' \in 1..COMBO_DECAY_TIME
      /\ comboCount' = 0 => comboTimer' = 0 ]_vars

\* a combo of five, one update() short of being lost
C17_Witness ==
  /\ ev.op = "combo"
  /\ comboCount = 5
  /\ comboTimer = COMBO_DECAY_TIME - 1

\* twice the multiplier 1 + floor(count / 3) * 0.5
TwiceMultiplier(count) == 2 + (count \div 3)

\* C18: a meal calls incrementCombo once: comboCount goes up by one,
\* comboTimer is COMBO_DECAY_TIME, and the multiplier returned, the one the
\* meal scores with, is 1 + floor(comboCount / 3) * 0.5 of the new count.
\* No other step raises comboCount or the timer.
C18_Increment ==
  [][ /\ ev'.op = "food"
           => /\ comboCount' = comboCount + 1
              /\ comboTimer' = COMBO_DECAY_TIME
              /\ incrementCombo(comboCount).multiplier2 = TwiceMultiplier(comboCount')
              /\ score' - score
                   = foodScore(obstaclesEnabled, scoreMultiplier, TwiceMultiplier(comboCount'))
      /\ ev'.op # "food"
           => /\ comboCount' <= comboCount
              /\ comboTimer' <= comboTimer
              /\ score' = score ]_vars

\* the third meal of a combo: the first with the multiplier 1.5
C18_Witness ==
  /\ ev.op = "food"
  /\ comboCount = 3
  /\ comboTimer = COMBO_DECAY_TIME
  /\ scoreMultiplier = 2

C20_ScoreGrows ==
  [][ state = PLAY => (score' \in Nat /\ score' >= score) ]_vars

\* a frame of a round that collected a pickup earlier and has now eaten,
\* with an effect in force
C20_Witness ==
  /\ ev.op = "update"
  /\ state = PLAY
  /\ ev.ate
  /\ score > BASE_BONUS
  /\ activePowerUps # NoActive

\* C35: after every operation of the ComboSystem (reset, update,
\* incrementCombo) comboCount is 0 exactly when comboTimer is 0, and
\* comboTimer is within 0..COMBO_DECAY_TIME.
C35_CountAndTimer ==
  /\ comboCount >= 0
  /\ comboTimer \in 0..COMBO_DECAY_TIME
  /\ comboCount = 0 <=> comboTimer = 0

\* update has run a combo of two or more down to its last frame
C35_Witness ==
  /\ comboCount >= 2
  /\ comboTimer = 1
  /\ ev.op = "combo"

(* ---- Properties of the controller ---- *)

\* C21: outside a round (menu, pause, game over, high scores, settings) a
\* frame and a direction input leave the snake, the food, the pickups, the
\* countdowns of the effects, the spawn timer, the combo, GAME_SPEED and the
\* score as they are, and the state too.
C21_IdleOutsidePlay ==
  [][ (state # PLAY /\ (ev'.op = "update" \/ ev'.dir # "none"))
      => /\ state' = state
         /\ UNCHANGED <<body, direction, nextDirection, actualDirection, foodPos,
                        powerUps, activePowerUps, spawnTimer, comboCount, comboTimer,
                        gameSpeed, score>> ]_vars

\* a frame has passed over a paused round with an effect counting down
C21_Witness ==
  /\ state = PAUSE
  /\ ev.op = "update"
  /\ activePowerUps # NoActive
  /\ spawnTimer = 1

(* ---- Properties of the end of a round and of the high scores ---- *)
modePlayed == IF obstaclesEnabled THEN "obstacles" ELSE "classic"

\* the lists, or the record of what was added to them, change in this step
ScoresChange == highScores' # highScores \/ scoresAdded' # scoresAdded

RunsOut(k) ==
  /\ k \in DOMAIN activePowerUps
  /\ activePowerUps[k] = 1
  /\ k \notin Collected

toward(a, b) == IF b > a THEN a + 1 ELSE IF b < a THEN a - 1 ELSE a

C26_LoopStarts == <>loopRunning

\* C30: the loop has stopped (criticalError set, no frame requested) exactly
\* when the last errorLimit frames or more all ended in an error.
C30_StopsAfterLimitInARow ==
  /\ criticalError <=> ev.errors >= errorLimit
  /\ criticalError => ~loopRunning
  /\ (~criticalError /\ ev.op = "error") => loopRunning

(* ---- Properties of the high scores ---- *)
\* how many entries of a list equal v
copiesListed(list, v) == Cardinality({i \in 1..Len(list) : list[i] = v})

\* C27: each list is in descending order, has as many entries as were added
\* to it but at most MAX_SCORES, holds only scores that were added, each no
\* more often than it was added, and every score added that the list lacks
\* is no higher than any score the list holds.
C27_TopScores ==
  \A mode \in Modes :
    LET list == highScores[mode]
        all == scoresAdded[mode]
    IN  /\ \A i, j \in 1..Len(list) : i < j => list[i] >= list[j]
        /\ Len(list) <= MAX_SCORES
        /\ Len(list) = (IF BagCardinality(all) < MAX_SCORES
                        THEN BagCardinality(all) ELSE MAX_SCORES)
        /\ \A i \in 1..Len(list) : copiesListed(list, list[i]) <= CopiesIn(list[i], all)
        /\ \A v \in BagToSet(all) :
             copiesListed(list, v) < CopiesIn(v, all) => \A i \in 1..Len(list) : list[i] >= v

\* more scores than the list holds were added, a low one before a high one,
\* and the list dropped a score
C27_Witness ==
  /\ highScores.classic = <<MaxFinal, 1>>
  /\ BagCardinality(scoresAdded.classic) = MAX_SCORES + 1
  /\ CopiesIn(0, scoresAdded.classic) = 1
  /\ ev.op = "addScore"

\* C28: isHighScore is true while the list has fewer than MAX_SCORES entries;
\* with a full list it is true for a score higher than the lowest entry and
\* false for a score equal to it or lower.
C28_BeatsLowest ==
  \A mode \in Modes, sc \in 0..MaxFinal :
    LET list == highScores[mode]
    IN  isHighScore(highScores, sc, mode)
          <=> (Len(list) < MAX_SCORES \/ sc > list[Len(list)])

\* C29: whatever the store does with the write, a call of addScore ends with
\* the new score added to the lists and a call of clearScores ends with the
\* lists empty; the stored item is then the new lists or, after a rejected
\* write, what it was.
C29_RejectedWrite ==
  [][ /\ \A mode \in Modes, sc \in 0..MaxFinal :
           (ev'.op = "addScore" /\ scoresAdded'[mode] = scoresAdded[mode] (+) SetToBag({sc}))
           => /\ highScores' = addScore(highScores, sc, mode)
              /\ stored' = <<highScores'>> \/ stored' = stored
      /\ ev'.op = "clearScores"
         => /\ highScores' = EmptyScores
            /\ stored' = <<EmptyScores>> \/ stored' = stored ]_vars

\* two writes in a row were rejected: the lists hold two scores, the stored
\* item is still the empty lists of an earlier write
C29_Witness ==
  /\ ev.op = "addScore"
  /\ highScores.obstacles = <<2>>
  /\ highScores.classic = <<1>>
  /\ stored = <<EmptyScores>>

(* ---- Properties of the pause and of the keys ---- *)

\* a keydown event of the P key
PKey == ev'.op = "input" /\ ev'.key = "p"

\* a keydown event whose key InputManager.handleKeyDown turns into 'pause'
PauseKey == ev'.op = "input" /\ ev'.key \in {"p", "Escape"} /\ currentState \in {PLAY, PAUSE}

\* the pause handler's two transitions
Toggles == (state = PLAY => state' = PAUSE) /\ (state = PAUSE => state' = PLAY)

C37_InputSeesState ==
  [][(ev'.op = "input" /\ ev'.key # "none") =>
       /\ currentState = state
       /\ (ev'.key = "p" /\ state = MENU) => state' = PLAY
       /\ (ev'.key = "s" /\ state = MENU) => state' = SETTINGS]_vars

(* ---- Properties of isValidPosition ---- *)

\* the positions isValidPosition is asked about: the grid and the ring around it
ProbeCells == {Cell(cx, cy) : cx \in (-1)..GRID_COLS, cy \in (-1)..GRID_ROWS}

\* the answer the tests of CollisionSystem expect for a position and options
expectedValid(position, o) ==
  /\ ~OffGrid(position)
  /\ ~OnBody(position, body)
  /\ ~OnObstacle(position)
  /\ o.excludeFood => ~(position.x = foodPos.x /\ position.y = foodPos.y)
  /\ o.excludePowerUps => ~OnPickup(position, powerUps)

\* C32: isValidPosition rejects a position that is out of bounds, on the
\* snake or on an obstacle; it accepts the food cell unless excludeFood is set
\* and a pickup cell unless excludePowerUps is set, and it accepts every other
\* cell; so a cell findValidPosition returns from a sample passes that test.
C32_AsTested ==
  [][(ev'.op = "find" /\ attempts' = attempts + 1) =>
       /\ \A position \in ProbeCells, o \in Options :
            isValidPosition(position, body, obstacles, foodPos, powerUps,
                            o.excludeFood, o.excludePowerUps)
              <=> expectedValid(position, o)
       /\ returned' # <<>> => expectedValid(returned'[1], options[1])]_vars

(* ---- Properties of the start of a round ---- *)

\* a round starts: the 'play' or 'select' handler sets PLAY and calls resetGame
RoundStarts == state = MENU /\ state' = PLAY

\* C33: after resetGame no power-up effect is in force: no pickup is on the
\* field, activePowerUps is empty, the spawn timer is 0, scoreMultiplier is 1,
\* GAME_SPEED is BASE_GAME_SPEED, and invincible, shrinkActive and
\* magnetActive are off (shrinkActive counts as off when the new Snake has no
\* such field).
C33_ResetClearsEffects ==
  [][RoundStarts =>
       /\ powerUps' = <<>>
       /\ activePowerUps' = NoActive
       /\ spawnTimer' = 0
       /\ scoreMultiplier' = 1
       /\ gameSpeed' = speed(BASE_GAME_SPEED)
       /\ ~invincible'
       /\ shrinkActive' # "true"
       /\ ~magnetActive']_vars

(* ---- Properties of the collection of pickups ---- *)

\* C36: a pickup on the cell of the head is collected before the head moves
\* again.  Every frame of a round collects the pickups on the cell the head
\* is on when the frame begins, before the frame's move: after the frame none
\* is left on that cell, whether or not the frame moved the snake.  Between
\* frames, and in frames outside PLAY, neither the snake nor the pickups
\* change (pause, resume, the page being hidden), except that starting a round
\* replaces both.
C36_CollectedBeforeNextMove ==
  [][/\ (ev'.op = "update" /\ state = PLAY) =>
          /\ ~OnPickup(body[1], powerUps')
          /\ Len(ev'.collected) = Len(Split(powerUps \o ev'.spawned, body[1], TRUE))
          /\ \A c \in GridCells : OnPickup(c, powerUps') => OnPickup(c, powerUps \o ev'.spawned)
     /\ (ev'.op = "update" /\ state # PLAY) => UNCHANGED <<body, powerUps>>
     /\ (ev'.op = "input" /\ ~RoundStarts) => UNCHANGED <<body, powerUps>>]_vars

\* the snake has moved on in the frame that collected the pickup its head was
\* on
C36_Witness ==
  /\ state = PLAY
  /\ ev.op = "update"
  /\ ev.collected # <<>>
  /\ ev.spawned = <<>>
  /\ ev.moved = "ok"

\* The list of a mode after addScore(sc), with the entries told apart: an
\* entry that was in the list stands as 2 * score + 1 and the new entry as
\* 2 * sc, so that among equal scores the new entry, pushed last, comes last,
\* as the stable sort of the program leaves it.
listAfterAdd(sc, mode) ==
  LET marked == [i \in 1..Len(highScores[mode]) |-> 2 * highScores[mode][i] + 1]
  IN  addScore([highScores EXCEPT ![mode] = marked], 2 * sc, mode)[mode]

\* the entry addScore(sc) adds is in the list when addScore returns
entryKept(sc, mode) ==
  \E i \in 1..Len(listAfterAdd(sc, mode)) : listAfterAdd(sc, mode)[i] = 2 * sc

\* C38: isHighScore(score, mode) is true exactly when the addScore that
\* follows leaves the new entry in the list of the mode.
C38_HighScoreIffKept ==
  [][ev'.op = "addScore" =>
       \A mode \in Modes, sc \in 0..MaxFinal :
         scoresAdded'[mode] = scoresAdded[mode] (+) SetToBag({sc}) =>
           /\ highScores'[mode]
                = [i \in 1..Len(listAfterAdd(sc, mode)) |-> listAfterAdd(sc, mode)[i] \div 2]
           /\ isHighScore(highScores, sc, mode) <=> entryKept(sc, mode)]_vars

(* ---- Properties of the loading of the audio ---- *)

\* the entries of loadErrors for the background audio
audioErrors == Cardinality({i \in 1..Len(loadErrors) : loadErrors[i].type = "audio"})

\* C39: in every interleaving of canplaythrough, error and the timer, the
\* audio is never recorded as failed twice and never both in sounds and
\* recorded as failed; once its promise has resolved it is in sounds with no
\* entry in loadErrors, or absent from sounds with exactly one entry.
C39_LoadedOrFailedOnce ==
  /\ audioErrors <= 1
  /\ ~(sounds /\ audioErrors > 0)
  /\ audioLoad # "pending" =>
       \/ sounds /\ audioErrors = 0
       \/ ~sounds /\ audioErrors = 1

(* ---- Properties of the SoundManager ---- *)
\* the contexts the sounds played so far went through
playedThrough ==
  {soundCalls[i].through : i \in {j \in 1..Len(soundCalls) :
                                    soundCalls[j].kind = "sound" /\ soundCalls[j].stage = "done"}}

\* C40: however many playSound or playBackgroundMusic calls arrive before
\* the initialisation has finished, one AudioContext with one chain is
\* created, and every sound played goes through that chain.
C40_InitializedOnce ==
  /\ contextsCreated <= 1
  /\ \A c \in playedThrough : c = 1
  /\ soundManager.isInitialized =>
       /\ soundManager.audioCtx = 1
       /\ soundManager.masterGain = 1
       /\ soundManager.compressor = 1
       /\ soundManager.reverbNode = 1

====
